---- MODULE Spec2Model ----
(***************************************************************************)
(* Player-stats aggregation and caching engine of blitzgremlin:            *)
(* yahoo_api.py (fetch_yahoo, the parsers, _fetch_players_stats and its    *)
(* individual fallback, batch_fetch_player_stats), models.py (Player and   *)
(* its per-object stats cache), utils.py, config.py and the routes of      *)
(* routes.py that drive them.                                              *)
(*                                                                         *)
(* Strings that the code builds by concatenation (league keys, synthesized *)
(* stat names, error descriptions) are sequences of string pieces.  Python *)
(* None is the piece "None" for scalar strings and <<>> for piece lists.   *)
(***************************************************************************)
EXTENDS Integers, Sequences, FiniteSets, TLC

VARIABLES
    clock,      \* time.time(), whole seconds
    token,      \* TRUE when token.json holds a token (auth.load_token)
    ver,        \* which of two sets of statistics the upstream holds (upstream state)
    valid,      \* player keys the upstream accepts (upstream state)
    rej,        \* how the upstream words the rejection of a key (upstream state)
    cache,      \* Player -> _stats_cache (cache_key -> {"stats","timestamp"})
    nops,       \* operations run so far
    nticks,     \* clock advances so far
    last,       \* observation of the last operation: arguments, result, upstream calls
    thread,     \* thread -> where its get_stats / batch call stands, and its locals
    writes,     \* the stores into the raced cache key, in the order they happened
    _CACHE,     \* yahoo_client._CACHE: key -> (data, exp)
    client      \* thread -> where its league_metadata call stands, and its locals

vars == <<clock, token, ver, valid, rej, cache, nops, nticks, last, thread, writes, _CACHE, client>>

----------------------------------------------------------------------------
(* Bounds of the model *)

MaxOps == 2
MaxTicks == 3
MaxFaults == 1

(* Program constants *)

CACHE_TTL == 3600

None == "None"

(* Player keys known to the model; which of them the upstream accepts is    *)
(* the variable valid.                                                      *)
Keys == {"A", "B", "X"}

(* Long-lived Player objects and the player_key each was constructed with.  *)
Players == {"p1", "p2"}

PlayerKeyOf(p) == IF p = "p1" THEN "A" ELSE "X"

(* League ids as callers give them: bare digits, or the full key.           *)
RawLeagues == {<<"12345">>, <<"461", ".l.", "12345">>}

Digits == {"12345"}

(* (stats_type, week) pairs callers pass.                                   *)
Scopes == {<<None, None>>, <<"week", "3">>}

----------------------------------------------------------------------------
(* utils.normalize_league_id *)

IsDigit(league_id) == Len(league_id) = 1 /\ league_id[1] \in Digits

(* A variant that hands every id on as it came. *)
NormalizeNothing(league_id) == league_id

normalize_league_id(league_id) ==
    IF IsDigit(league_id) THEN <<"461", ".l.">> \o league_id ELSE league_id

(* Python's  a or b  on optional strings *)
Or(a, b) == IF a # None THEN a ELSE b

----------------------------------------------------------------------------
(* The upstream provider.  A reply depends on the upstream state (valid,    *)
(* ver, rej) and on what happens to the one HTTP call (its behaviour).      *)

Behaviours == {"ok", "http401", "http500", "neterr"}

(* Bodies of a 200 response that are not what was asked for: content that  *)
(* is no XML, a document without the players (or settings) element, and    *)
(* player elements without a player_key.                                    *)
Payloads == {"badxml", "nofields", "nokey"}

(* Error descriptions the upstream may send, as word lists.                 *)
Descs == { <<"Player", "key", "does not exist">>,
           <<"Invalid", "player", "key">>,
           <<"Bad", "request">> }

RejForms == {"err200", "http400"}

(* str.lower() on the words that occur *)
Lower(w) == IF w = "Invalid" THEN "invalid" ELSE IF w = "Bad" THEN "bad"
            ELSE IF w = "Player" THEN "player" ELSE w

Contains(desc, phrase) == \E i \in 1..Len(desc) : desc[i] = phrase

LowerDesc(desc) == [i \in 1..Len(desc) |-> Lower(desc[i])]

(* Repeated XML elements as xmltodict decodes them: absent, a single item   *)
(* (one mapping, or one string), or a list.                                 *)
Node(items) ==
    [shape |-> IF Len(items) = 0 THEN "absent"
               ELSE IF Len(items) = 1 THEN "single" ELSE "list",
     items |-> items]

AbsentNode == [shape |-> "absent", items |-> <<>>]

StatValue(v) == IF v = 1 THEN "10" ELSE "20"

(* The <player> element the upstream sends for key k: X is a running back,  *)
(* the others quarterbacks; stat 5 comes as the placeholder "-", for B as   *)
(* an empty <value/> element (None after decoding).                         *)
UpstreamPlayer(k) ==
    [player_key |-> k,
     name |-> k,
     editorial_team_abbr |-> "SF",
     primary_position |-> IF k = "X" THEN "RB" ELSE "QB",
     positions |-> Node(<<"QB">>),
     coverage_type |-> "season",
     week |-> None,
     stat |-> Node(<< [stat_id |-> "4", value |-> StatValue(ver)],
                      [stat_id |-> "5", value |-> IF k = "B" THEN None ELSE "-"] >>)]

(* The <stat> elements of the league settings: stat 5 has neither a display *)
(* name nor a name, stat 6 has a name but no display name.                  *)
UpstreamSettings ==
    Node(<< [stat_id |-> "4", display_name |-> <<"Pass Yds">>, name |-> <<"Passing Yards">>],
            [stat_id |-> "5", display_name |-> <<>>, name |-> <<>>],
            [stat_id |-> "6", display_name |-> <<>>, name |-> <<"Rushing Yards">>] >>)

SeqToSet(s) == {s[i] : i \in 1..Len(s)}

Url(res, league_id, keys) == [res |-> res, league |-> league_id, keys |-> keys]

(* yahoo_api.build_player_stats_url *)
build_player_stats_url(league_id, player_key) == Url("stats", league_id, <<player_key>>)

(* yahoo_api.build_multi_player_stats_url *)
build_multi_player_stats_url(league_id, player_keys) == Url("stats", league_id, player_keys)

SettingsUrl(league_id) == Url("settings", league_id, <<>>)

(* What fetch_yahoo hands back or raises.                                   *)
(*   kind   "value" | "raise"                                               *)
(*   exc    exception class when raised                                     *)
(*   status HTTP status of the response (0: no response)                    *)
(*   err    the top-level "error" of the decoded body: "none", "str"        *)
(*          (fetch_yahoo's own "Not authenticated") or "dict"               *)
(*   desc   error.description of the body                                   *)
(*   player fantasy_content.league.players.player                           *)
(*   stat   fantasy_content.league.settings.stat_categories.stats.stat      *)
Reply(kind, exc, status, err, desc, player, stat) ==
    [kind |-> kind, exc |-> exc, status |-> status, err |-> err, desc |-> desc,
     player |-> player, stat |-> stat]

(* The upstream's answer to a well-delivered, authorized request. *)
UpstreamAnswer(url) ==
    IF url.res = "settings"
    THEN Reply("value", "none", 200, "none", <<>>, AbsentNode, UpstreamSettings)
    ELSE IF SeqToSet(url.keys) \subseteq valid
    THEN Reply("value", "none", 200, "none", <<>>,
               Node([i \in 1..Len(url.keys) |-> UpstreamPlayer(url.keys[i])]),
               AbsentNode)
    ELSE IF rej.form = "err200"
    THEN Reply("value", "none", 200, "dict", rej.desc, AbsentNode, AbsentNode)
    ELSE Reply("raise", "HTTPError", 400, "dict", rej.desc, AbsentNode, AbsentNode)

(* The reply r with the player_key of every player element left out. *)
WithoutPlayerKeys(r) ==
    [r EXCEPT !.player = Node([i \in 1..Len(r.player.items) |->
                                  [r.player.items[i] EXCEPT !.player_key = None]])]

(* yahoo_api.fetch_yahoo, for one call whose transport behaves as b.  On a  *)
(* 200 response xmltodict.parse raises ExpatError for content that is no    *)
(* XML (yahoo_api.py 38, 56-58) and decodes any other document as it is.    *)
fetch_yahoo(url, b) ==
    IF ~token
    THEN Reply("value", "none", 0, "str", <<"Not authenticated">>, AbsentNode, AbsentNode)
    ELSE IF b = "neterr"
    THEN Reply("raise", "ConnectionError", 0, "none", <<>>, AbsentNode, AbsentNode)
    ELSE IF b = "http401"
    THEN Reply("raise", "HTTPError", 401, "none", <<>>, AbsentNode, AbsentNode)
    ELSE IF b = "http500"
    THEN Reply("raise", "HTTPError", 500, "none", <<>>, AbsentNode, AbsentNode)
    ELSE IF b = "badxml"
    THEN Reply("raise", "ExpatError", 200, "none", <<>>, AbsentNode, AbsentNode)
    ELSE IF b = "nofields"
    THEN Reply("value", "none", 200, "none", <<>>, AbsentNode, AbsentNode)
    ELSE IF b = "nokey"
    THEN WithoutPlayerKeys(UpstreamAnswer(url))
    ELSE UpstreamAnswer(url)

(* One entry of an operation's log of fetch_yahoo calls. *)
Call(url, b, r) ==
    [url |-> url, beh |-> b, sent |-> token,
     outcome |-> IF r.kind = "raise" THEN <<r.exc, r.status>>
                 ELSE IF r.err # "none" THEN <<"error", r.status>>
                 ELSE IF b = "nofields" \/ (b = "nokey" /\ url.res # "settings")
                 THEN <<"fieldless", r.status>>
                 ELSE <<"data", r.status>>]

----------------------------------------------------------------------------
(* Fault plans: which fetch_yahoo calls of one operation (numbered in the   *)
(* order they are made) meet a transport failure, and which one.            *)

Faults == Behaviours \ {"ok"}

RECURSIVE PlansUpTo(_, _)
PlansUpTo(n, slots) ==
    IF n = 0 THEN {{}}
    ELSE LET P == PlansUpTo(n - 1, slots)
         IN  P \cup { p \cup {<<i, b>>} :
                      <<p, i, b>> \in { x \in P \X (1..slots) \X Faults :
                                        \A f \in x[1] : f[1] # x[2] } }

Plans(slots) == PlansUpTo(MaxFaults, slots)

BehAt(plan, i) ==
    IF \E f \in plan : f[1] = i THEN (CHOOSE f \in plan : f[1] = i)[2] ELSE "ok"

(* Plans in which one call of the operation gets a body that is not what   *)
(* was asked for.                                                          *)
PayloadPlans(slots) == { {<<i, b>>} : <<i, b>> \in (1..slots) \X Payloads }

----------------------------------------------------------------------------
(* yahoo_api.parse_player_stats_response *)

EmptyParsed ==
    [player_key |-> None, name |-> None, team |-> None, positions |-> <<>>,
     stats_type |-> None, week |-> None, stats |-> <<>>]

(* A variant that enters a placeholder value as zero. *)
ParsedStatZeroFill(s) ==
    [stat_id |-> s.stat_id, value |-> IF s.value = "-" THEN "0" ELSE s.value]

ParsedStat(s) == [stat_id |-> s.stat_id, value |-> s.value]

parse_player_stats_response(player_entry) ==
    IF player_entry.shape = "absent" \/ Len(player_entry.items) = 0
    THEN EmptyParsed
    ELSE LET player == player_entry.items[1]
         IN  [player_key |-> player.player_key,
              name |-> player.name,
              team |-> player.editorial_team_abbr,
              positions |-> player.positions.items,
              stats_type |-> player.coverage_type,
              week |-> player.week,
              stats |-> [i \in 1..Len(player.stat.items) |->
                            ParsedStat(player.stat.items[i])]]

(* yahoo_api.parse_multi_player_stats_response *)
parse_multi_player_stats_response(player_entries) ==
    IF player_entries.shape = "absent" \/ Len(player_entries.items) = 0
    THEN <<>>
    ELSE [i \in 1..Len(player_entries.items) |->
             parse_player_stats_response(Node(<<player_entries.items[i]>>))]

(* yahoo_api.get_league_stat_categories: the mapping, from the reply of the *)
(* settings call.                                                           *)
(* A variant whose last resort is the bare stat id. *)
DisplayNameBareId(s) ==
    IF s.display_name # <<>> THEN s.display_name
    ELSE IF s.name # <<>> THEN s.name
    ELSE <<s.stat_id>>

DisplayName(s) ==
    IF s.display_name # <<>> THEN s.display_name
    ELSE IF s.name # <<>> THEN s.name
    ELSE <<"stat_", s.stat_id>>

(* A variant that answers a failed or empty settings reply with made-up     *)
(* names.                                                                   *)
CategoriesMadeUp(r) ==
    IF r.kind = "raise" \/ r.stat.shape = "absent"
    THEN [sid \in {"4", "5"} |-> <<"stat_", sid>>]
    ELSE LET items == r.stat.items
             ids == {items[i].stat_id : i \in 1..Len(items)}
             LastOf(sid) == CHOOSE i \in 1..Len(items) :
                              /\ items[i].stat_id = sid
                              /\ \A j \in 1..Len(items) : items[j].stat_id = sid => j <= i
         IN  [sid \in ids |-> DisplayName(items[LastOf(sid)])]

CategoriesOf(r) ==
    IF r.kind = "raise" \/ r.stat.shape = "absent" THEN <<>>
    ELSE LET items == r.stat.items
             ids == {items[i].stat_id : i \in 1..Len(items)}
             LastOf(sid) == CHOOSE i \in 1..Len(items) :
                              /\ items[i].stat_id = sid
                              /\ \A j \in 1..Len(items) : items[j].stat_id = sid => j <= i
         IN  [sid \in ids |-> DisplayName(items[LastOf(sid)])]

get_league_stat_categories(league_id, b) ==
    LET url == SettingsUrl(league_id)
        r == fetch_yahoo(url, b)
    IN  [map |-> CategoriesOf(r), calls |-> <<Call(url, b, r)>>]

(* dict.get(sid) on the category mapping *)
CatGet(id_to_name, sid) == IF sid \in DOMAIN id_to_name THEN id_to_name[sid] ELSE <<>>

EnrichStats(stats, id_to_name) ==
    [i \in 1..Len(stats) |->
        [stat_id |-> stats[i].stat_id,
         stat_name |-> CatGet(id_to_name, stats[i].stat_id),
         value |-> stats[i].value]]

(* The enriched dictionary built at yahoo_api.py 419-428 and 489-498. *)
Enriched(parsed, id_to_name, league_id, stats_type, week) ==
    [league_id |-> league_id,
     player_key |-> parsed.player_key,
     name |-> parsed.name,
     team |-> parsed.team,
     positions |-> parsed.positions,
     stats_type |-> Or(parsed.stats_type, stats_type),
     week |-> Or(parsed.week, week),
     stats |-> EnrichStats(parsed.stats, id_to_name)]

----------------------------------------------------------------------------
(* Results of a function that may raise. *)

Return(value, calls) == [kind |-> "return", value |-> value, exc |-> <<"none", 0>>, calls |-> calls]

Raise(exc, calls) == [kind |-> "raise", value |-> <<>>, exc |-> exc, calls |-> calls]

(* A variant that takes every error description for an invalid-key signal. *)
IsInvalidKeyDescAny(error_desc) == Len(error_desc) >= 0

(* The invalid-key test of yahoo_api.py 399 and 439. *)
IsInvalidKeyDesc(error_desc) ==
    Contains(error_desc, "does not exist") \/ Contains(LowerDesc(error_desc), "invalid")

(* error.get("description", "") if isinstance(error, dict) else "" *)
ErrorDesc(r) == IF r.err = "dict" THEN r.desc ELSE <<>>

RECURSIVE Flatten(_)
Flatten(ss) == IF Len(ss) = 0 THEN <<>> ELSE Head(ss) \o Flatten(Tail(ss))

(* One pass of the loop of _fetch_players_stats_individual: the entries     *)
(* (none or one) that the reply r to the request for one key adds.          *)
IndividualEntries(r, id_to_name, league_id, stats_type, week) ==
    IF r.kind = "raise" THEN <<>>
    ELSE IF r.err # "none" THEN <<>>
    ELSE LET parsed == parse_player_stats_response(r.player)
         IN  IF parsed.player_key # None
             THEN << Enriched(parsed, id_to_name, league_id, stats_type, week) >>
             ELSE <<>>

(* A variant that gives up at the first key that adds no entry (break for   *)
(* continue).                                                               *)
FetchIndividualBreak(league_id, player_keys, stats_type, week, plan, first) ==
    LET cats == get_league_stat_categories(league_id, BehAt(plan, first + 1))
        url(i) == build_player_stats_url(league_id, player_keys[i])
        beh(i) == BehAt(plan, first + 1 + i)
        raw(i) == fetch_yahoo(url(i), beh(i))
        one(i) == IndividualEntries(raw(i), cats.map, league_id, stats_type, week)
        n == Len(player_keys)
        stop == IF \E i \in 1..n : one(i) = <<>>
                THEN CHOOSE i \in 1..n : one(i) = <<>> /\ \A j \in 1..(i - 1) : one(j) # <<>>
                ELSE n
    IN  Return(Flatten([i \in 1..stop |-> one(i)]),
               cats.calls \o [i \in 1..stop |-> Call(url(i), beh(i), raw(i))])

(* A variant that asks a second time for a key whose request raised. *)
FetchIndividualRetry(league_id, player_keys, stats_type, week, plan, first) ==
    LET cats == get_league_stat_categories(league_id, BehAt(plan, first + 1))
        url(i) == build_player_stats_url(league_id, player_keys[i])
        beh(i) == BehAt(plan, first + 1 + i)
        raw(i) == fetch_yahoo(url(i), beh(i))
        n == Len(player_keys)
        calls(i) == IF raw(i).kind = "raise"
                    THEN <<Call(url(i), beh(i), raw(i)), Call(url(i), beh(i), raw(i))>>
                    ELSE <<Call(url(i), beh(i), raw(i))>>
    IN  Return(Flatten([i \in 1..n |->
                          IndividualEntries(raw(i), cats.map, league_id, stats_type, week)]),
               cats.calls \o Flatten([i \in 1..n |-> calls(i)]))

(* yahoo_api._fetch_players_stats_individual; its calls take the plan's     *)
(* slots first+1, first+2, ...                                              *)
_fetch_players_stats_individual(league_id, player_keys, stats_type, week, plan, first) ==
    LET cats == get_league_stat_categories(league_id, BehAt(plan, first + 1))
        url(i) == build_player_stats_url(league_id, player_keys[i])
        beh(i) == BehAt(plan, first + 1 + i)
        raw(i) == fetch_yahoo(url(i), beh(i))
        n == Len(player_keys)
    IN  Return(Flatten([i \in 1..n |->
                          IndividualEntries(raw(i), cats.map, league_id, stats_type, week)]),
               cats.calls \o [i \in 1..n |-> Call(url(i), beh(i), raw(i))])

(* The batch branch of _fetch_players_stats after a reply without error. *)
BatchEnriched(raw, league_id, stats_type, week, plan, first) ==
    LET parsed_list == parse_multi_player_stats_response(raw.player)
        cats == get_league_stat_categories(league_id, BehAt(plan, first + 1))
    IN  Return([i \in 1..Len(parsed_list) |->
                   Enriched(parsed_list[i], cats.map, league_id, stats_type, week)],
               cats.calls)

WithCalls(calls, res) == [res EXCEPT !.calls = calls \o res.calls]

(* yahoo_api._fetch_players_stats; its calls take the plan's slots          *)
(* first+1, first+2, ...                                                    *)
_fetch_players_stats(league_id, player_keys, stats_type, week, plan, first) ==
    IF Len(player_keys) = 0 THEN Return(<<>>, <<>>)
    ELSE
    LET url == build_multi_player_stats_url(league_id, player_keys)
        b == BehAt(plan, first + 1)
        raw == fetch_yahoo(url, b)
        batch == <<Call(url, b, raw)>>
        fallback == WithCalls(batch,
                       _fetch_players_stats_individual(league_id, player_keys, stats_type,
                                                       week, plan, first + 1))
    IN  IF raw.kind = "raise"
        THEN IF raw.exc = "HTTPError" /\ raw.status = 400 /\ IsInvalidKeyDesc(ErrorDesc(raw))
             THEN fallback
             ELSE Raise(<<raw.exc, raw.status>>, batch)
        ELSE IF raw.err # "none"
        THEN IF IsInvalidKeyDesc(ErrorDesc(raw))
             THEN fallback
             ELSE Raise(<<"RuntimeError", raw.status>>, batch)
        ELSE WithCalls(batch, BatchEnriched(raw, league_id, stats_type, week, plan, first + 1))

----------------------------------------------------------------------------
(* models.Player: the per-object stats cache *)

Some(v) == <<v>>

Nothing == <<>>

(* The cache key string of models.py 188 and yahoo_api.py 544. *)
cache_key(normalized_league_id, stats_type, week) ==
    <<normalized_league_id, Or(stats_type, "season"), Or(week, "all")>>

CacheEntry(stats, now) == [stats |-> stats, timestamp |-> now]

Lookup(c, k) == IF k \in DOMAIN c THEN Some(c[k]) ELSE Nothing

(* A store that updates the entry it finds in place and has put in the new  *)
(* stats but not yet the new timestamp.                                     *)
StoreInPlace(c, k, e) ==
    [x \in DOMAIN c \cup {k} |->
        IF x # k THEN c[x]
        ELSE IF k \in DOMAIN c THEN [stats |-> e.stats, timestamp |-> c[k].timestamp]
        ELSE e]

(* c[k] = e: one dictionary assignment. *)
Store(c, k, e) == [x \in DOMAIN c \cup {k} |-> IF x = k THEN e ELSE c[x]]

(* A cache check that serves exactly the entries that are too old. *)
CacheFreshInverted(entry, now) == now - entry.timestamp >= CACHE_TTL

(* A cache check that still serves an entry at the age of the TTL. *)
CacheFreshInclusive(entry, now) == now - entry.timestamp <= CACHE_TTL

(* models.py 193-195: the entry is young enough to be served. *)
CacheFresh(entry, now) == now - entry.timestamp < CACHE_TTL

(* A Player object: the attributes get_stats reads. *)
PlayerObj(player_key, name, team) == [player_key |-> player_key, name |-> name, team |-> team]

(* models.py 220-229 *)
StatsResult(self, parsed_stats, stat_categories, normalized_league_id, stats_type, week) ==
    [league_id |-> normalized_league_id,
     player_key |-> self.player_key,
     name |-> Or(parsed_stats.name, self.name),
     team |-> Or(parsed_stats.team, self.team),
     positions |-> parsed_stats.positions,
     stats_type |-> Or(parsed_stats.stats_type, stats_type),
     week |-> Or(parsed_stats.week, week),
     stats |-> EnrichStats(parsed_stats.stats, stat_categories)]

GetStatsResult(ret, c, calls, hit) == [ret |-> ret, cache |-> c, calls |-> calls, hit |-> hit]

(* A fetch that remembers its failure: it stores an entry without stats. *)
FetchFreshCachesFailure(self, c, ck, normalized_league_id, stats_type, week, now, plan, first) ==
    LET url == build_player_stats_url(normalized_league_id, self.player_key)
        b == BehAt(plan, first + 1)
        data == fetch_yahoo(url, b)
        call == <<Call(url, b, data)>>
    IN  IF data.kind = "raise" \/ data.err # "none"
        THEN GetStatsResult(Nothing, Store(c, ck, CacheEntry(None, now)), call, FALSE)
        ELSE LET parsed_stats == parse_player_stats_response(data.player)
                 cats == get_league_stat_categories(normalized_league_id,
                                                    BehAt(plan, first + 2))
                 result == StatsResult(self, parsed_stats, cats.map,
                                       normalized_league_id, stats_type, week)
             IN  GetStatsResult(Some(result), Store(c, ck, CacheEntry(result, now)),
                                call \o cats.calls, FALSE)

(* A fetch that merges: it puts the new stats into the entry it finds and  *)
(* keeps that entry's timestamp.                                            *)
FetchFreshKeepsTimestamp(self, c, ck, normalized_league_id, stats_type, week, now, plan, first) ==
    LET url == build_player_stats_url(normalized_league_id, self.player_key)
        b == BehAt(plan, first + 1)
        data == fetch_yahoo(url, b)
        call == <<Call(url, b, data)>>
    IN  IF data.kind = "raise" \/ data.err # "none"
        THEN GetStatsResult(Nothing, c, call, FALSE)
        ELSE LET parsed_stats == parse_player_stats_response(data.player)
                 cats == get_league_stat_categories(normalized_league_id,
                                                    BehAt(plan, first + 2))
                 result == StatsResult(self, parsed_stats, cats.map,
                                       normalized_league_id, stats_type, week)
                 stamp == IF ck \in DOMAIN c THEN c[ck].timestamp ELSE now
             IN  GetStatsResult(Some(result), Store(c, ck, CacheEntry(result, stamp)),
                                call \o cats.calls, FALSE)

(* models.py 198-241: cache miss or expired, fetch fresh data. *)
FetchFresh(self, c, ck, normalized_league_id, stats_type, week, now, plan, first) ==
    LET url == build_player_stats_url(normalized_league_id, self.player_key)
        b == BehAt(plan, first + 1)
        data == fetch_yahoo(url, b)
        call == <<Call(url, b, data)>>
    IN  IF data.kind = "raise" \/ data.err # "none"
        THEN GetStatsResult(Nothing, c, call, FALSE)
        ELSE LET parsed_stats == parse_player_stats_response(data.player)
                 cats == get_league_stat_categories(normalized_league_id,
                                                    BehAt(plan, first + 2))
                 result == StatsResult(self, parsed_stats, cats.map,
                                       normalized_league_id, stats_type, week)
             IN  GetStatsResult(Some(result), Store(c, ck, CacheEntry(result, now)),
                                call \o cats.calls, FALSE)

(* models.Player.get_stats on the object self whose _stats_cache is c. *)
get_stats(self, c, league_id, stats_type, week, force_refresh, now, plan, first) ==
    IF self.player_key = None THEN GetStatsResult(Nothing, c, <<>>, FALSE)
    ELSE
    LET normalized_league_id == normalize_league_id(league_id)
        ck == cache_key(normalized_league_id, stats_type, week)
    IN  IF ~force_refresh /\ ck \in DOMAIN c /\ CacheFresh(c[ck], now)
        THEN GetStatsResult(Some(c[ck].stats), c, <<>>, TRUE)
        ELSE FetchFresh(self, c, ck, normalized_league_id, stats_type, week, now, plan, first)

(* Object identity of the value get_stats returns: the cache slot whose      *)
(* "stats" object it is.  A hit returns cached_data.get("stats"), the dict  *)
(* the entry holds (models.py 195); a fresh fetch puts result in the entry  *)
(* and returns the same dict (models.py 232-237).  Nothing is copied.       *)
ReturnedObject(ret, ck) == IF ret = Nothing THEN Nothing ELSE Some(ck)

(* Object identity in batch_fetch_player_stats: stat_data is put in the     *)
(* entry of every Player with the key and in stats_dict (yahoo_api.py       *)
(* 546-556): the objects o whose slot ck holds the object returned for k.   *)
BatchSharedWith(objs, obj, k) == {o \in SeqToSet(objs) : obj[o].player_key = k}

(* The cache after the holder of a reference to the stats object of slot    *)
(* ck has changed that object in place (here: its "name").                  *)
MutateInPlace(c, ck) == [c EXCEPT ![ck].stats.name = "changed"]

(* A variant that empties the cache whatever it is given. *)
ClearEverything(c, ck) == IF ck = Nothing THEN <<>> ELSE [x \in {} |-> c[x]]

(* models.Player.clear_stats_cache: ck is nothing for the call without      *)
(* argument; "if cache_key:" (models.py 249) sends the empty string the     *)
(* same way.                                                                *)
clear_stats_cache(c, ck) ==
    IF ck # Nothing /\ ck[1] # <<>> THEN [x \in DOMAIN c \ {ck[1]} |-> c[x]] ELSE <<>>

----------------------------------------------------------------------------
(* yahoo_api.batch_fetch_player_stats on the Player objects objs (a list of *)
(* object names), obj giving each object's attributes and caches its cache. *)

(* The elements of the list s that are in the set keep, in the order of s   *)
(* (the list comprehension of yahoo_api.py 529).                            *)
RECURSIVE Filter(_, _)
Filter(s, keep) ==
    IF Len(s) = 0 THEN <<>>
    ELSE IF Head(s) \in keep THEN <<Head(s)>> \o Filter(Tail(s), keep)
    ELSE Filter(Tail(s), keep)

(* stats_dict: the last entry of enriched_stats for each player_key. *)
StatsDict(enriched_stats) ==
    LET n == Len(enriched_stats)
        ks == {enriched_stats[i].player_key : i \in 1..n} \ {None}
        LastOf(k) == CHOOSE i \in 1..n :
                        /\ enriched_stats[i].player_key = k
                        /\ \A j \in 1..n : enriched_stats[j].player_key = k => j <= i
    IN  [k \in ks |-> enriched_stats[LastOf(k)]]

BatchResult(ret, caches, calls) == [ret |-> ret, caches |-> caches, calls |-> calls]

(* A variant that, when the fetch raised, drops the entry of the key from   *)
(* every Player of the list.                                                *)
BatchStoreDropsOnRaise(valid_players, obj, caches, ck, now, res) ==
    LET stats_dict == StatsDict(res.value)
    IN  IF res.kind = "raise"
        THEN BatchResult(<<>>,
                 [o \in DOMAIN caches |->
                     IF o \in SeqToSet(valid_players)
                     THEN [x \in DOMAIN caches[o] \ {ck} |-> caches[o][x]]
                     ELSE caches[o]],
                 res.calls)
        ELSE BatchResult(stats_dict,
                 [o \in DOMAIN caches |->
                     IF o \in SeqToSet(valid_players) /\ obj[o].player_key \in DOMAIN stats_dict
                     THEN Store(caches[o], ck,
                                CacheEntry(stats_dict[obj[o].player_key], now))
                     ELSE caches[o]],
                 res.calls)

(* yahoo_api.py 540-562: what batch_fetch_player_stats does with the        *)
(* outcome res of _fetch_players_stats, ck being the cache key.             *)
BatchStore(valid_players, obj, caches, ck, now, res) ==
    LET stats_dict == StatsDict(res.value)
    IN  IF res.kind = "raise" THEN BatchResult(<<>>, caches, res.calls)
        ELSE BatchResult(stats_dict,
                 [o \in DOMAIN caches |->
                     IF o \in SeqToSet(valid_players) /\ obj[o].player_key \in DOMAIN stats_dict
                     THEN Store(caches[o], ck,
                                CacheEntry(stats_dict[obj[o].player_key], now))
                     ELSE caches[o]],
                 res.calls)

batch_fetch_player_stats(objs, obj, caches, league_id, stats_type, week, now, plan, first) ==
    LET HasKey(o) == obj[o].player_key # None
        valid_players == Filter(objs, {o \in SeqToSet(objs) : HasKey(o)})
        player_keys == [i \in 1..Len(valid_players) |-> obj[valid_players[i]].player_key]
        normalized_league_id == normalize_league_id(league_id)
    IN  IF Len(valid_players) = 0 THEN BatchResult(<<>>, caches, <<>>)
        ELSE BatchStore(valid_players, obj, caches,
                        cache_key(normalized_league_id, stats_type, week), now,
                        _fetch_players_stats(normalized_league_id, player_keys, stats_type,
                                             week, plan, first))

----------------------------------------------------------------------------
(* routes.get_player_stats (GET /player) *)

(* yahoo_api.collect_player_keys_from_request: de-duplicated, in order. *)
RECURSIVE Dedup(_, _)
Dedup(raw_keys, keys) ==
    IF Len(raw_keys) = 0 THEN keys
    ELSE IF Head(raw_keys) \in SeqToSet(keys) THEN Dedup(Tail(raw_keys), keys)
    ELSE Dedup(Tail(raw_keys), Append(keys, Head(raw_keys)))

collect_player_keys_from_request(raw_keys) == Dedup(raw_keys, <<>>)

Response(status, players, skipped, calls) ==
    [status |-> status, players |-> players, skipped |-> skipped, calls |-> calls]

(* A variant with the set difference the wrong way round. *)
MissingKeysReversed(player_keys, enriched) ==
    ({enriched[i].player_key : i \in 1..Len(enriched)} \ {None}) \ SeqToSet(player_keys)

(* routes.py 643-645 *)
MissingKeys(player_keys, enriched) ==
    SeqToSet(player_keys) \ ({enriched[i].player_key : i \in 1..Len(enriched)} \ {None})

(* A variant of the route without the check of routes.py 638-639. *)
(* routes.py 640-666: the response of /player for the outcome res of       *)
(* _fetch_players_stats.                                                    *)
PlayerStatsResponse(player_keys, res) ==
    IF res.kind = "return"
    THEN Response(200, res.value, MissingKeys(player_keys, res.value), res.calls)
    ELSE IF res.exc[1] = "RuntimeError" THEN Response(502, <<>>, {}, res.calls)
    ELSE Response(500, <<>>, {}, res.calls)

GetPlayerStatsUnchecked(raw_league_id, raw_keys, stats_type, week, plan) ==
    LET player_keys == collect_player_keys_from_request(raw_keys)
        league_id == normalize_league_id(raw_league_id)
    IN  IF raw_league_id = <<>> THEN Response(400, <<>>, {}, <<>>)
        ELSE IF Len(player_keys) = 0 THEN Response(400, <<>>, {}, <<>>)
        ELSE PlayerStatsResponse(player_keys,
                 _fetch_players_stats(league_id, player_keys, stats_type, week, plan, 0))

get_player_stats(raw_league_id, raw_keys, stats_type, week, plan) ==
    LET player_keys == collect_player_keys_from_request(raw_keys)
        league_id == normalize_league_id(raw_league_id)
    IN  IF raw_league_id = <<>> THEN Response(400, <<>>, {}, <<>>)
        ELSE IF Len(player_keys) = 0 THEN Response(400, <<>>, {}, <<>>)
        ELSE IF stats_type = "week" /\ week = None THEN Response(400, <<>>, {}, <<>>)
        ELSE PlayerStatsResponse(player_keys,
                 _fetch_players_stats(league_id, player_keys, stats_type, week, plan, 0))

----------------------------------------------------------------------------
(* models.Player.to_dict(include_stats=True, league_id, week): the stats    *)
(* part (models.py 148-161).                                                *)

to_dict(self, c, league_id, stats_type, week, now, plan, first) ==
    get_stats(self, c, league_id, IF week # None THEN "week" ELSE stats_type, week,
              FALSE, now, plan, first)

(* utils.extract_league_id_from_team_key: the first three parts. *)
extract_league_id_from_team_key(team_key) ==
    IF Len(team_key) >= 3 THEN Some(SubSeq(team_key, 1, 3)) ELSE Nothing

(* The players of a roster reply as Player.from_yahoo_data builds them. *)
from_yahoo_data(player_data) ==
    PlayerObj(player_data.player_key, player_data.name, player_data.editorial_team_abbr)

(* The mapping-valued members of a decoded <player> element, each with its  *)
(* member names and the player it holds under "player" (none does: no       *)
(* element of a <player> contains a <player>).                              *)
MappingMembers(player_data) ==
    << [member |-> "name", keys |-> {"full", "first", "last"}, player |-> AbsentNode],
       [member |-> "eligible_positions", keys |-> {"position"}, player |-> AbsentNode],
       [member |-> "player_stats", keys |-> {"coverage_type", "stats"},
        player |-> AbsentNode] >>

(* yahoo_api.parse_yahoo_players_response on the node                       *)
(* fantasy_content.league.players.player: a list is taken player by player, *)
(* a single mapping is read as a keyed dictionary whose values hold the     *)
(* players under "player".                                                  *)
parse_yahoo_players_response(player_entries) ==
    IF player_entries.shape = "absent" \/ Len(player_entries.items) = 0 THEN <<>>
    ELSE IF player_entries.shape = "list"
    THEN [i \in 1..Len(player_entries.items) |-> from_yahoo_data(player_entries.items[i])]
    ELSE LET values == MappingMembers(player_entries.items[1])
         IN  Flatten([i \in 1..Len(values) |->
                 IF "player" \in values[i].keys
                 THEN <<from_yahoo_data(values[i].player.items[1])>>
                 ELSE <<>>])

(* The to_dict calls of routes.py 290-293, one object after the other; the  *)
(* calls of object i start after those of the objects before it.            *)
RECURSIVE ToDictAll(_, _, _, _, _, _, _, _)
ToDictAll(objs, caches, league_id, week, now, plan, first, done) ==
    IF Len(done) = Len(objs) THEN done
    ELSE LET i == Len(done) + 1
             used == Len(Flatten([j \in 1..Len(done) |-> done[j].calls]))
             r == to_dict(objs[i], caches[i], league_id, None, week, now, plan, first + used)
         IN  ToDictAll(objs, caches, league_id, week, now, plan, first, Append(done, r))

RosterResponse(status, batch, dicts, calls) ==
    [status |-> status, batch |-> batch, dicts |-> dicts, calls |-> calls]

(* routes.py 289-302: the response of /roster, dicts being what to_dict     *)
(* gave for every player.                                                   *)
RosterDicts(player_objects, first, batch, dicts) ==
    RosterResponse(200, batch.ret,
        [i \in 1..Len(player_objects) |->
            [player_key |-> player_objects[i].player_key,
             stats |-> dicts[i].ret, hit |-> dicts[i].hit, calls |-> dicts[i].calls]],
        first \o batch.calls
              \o Flatten([i \in 1..Len(player_objects) |-> dicts[i].calls]))

(* routes.py 286-302: what get_roster does once the batch prefetch has      *)
(* returned.                                                                *)
RosterAfterBatch(player_objects, league_id, week, now, plan, first, batch) ==
    RosterDicts(player_objects, first, batch,
                ToDictAll(player_objects, batch.caches, league_id, week, now, plan,
                          1 + Len(batch.calls), <<>>))

(* routes.get_roster (GET /roster/<team_key>?week=): roster is the list of  *)
(* player keys the upstream holds for the team.                             *)
get_roster(team_key, roster, week, now, plan) ==
    LET url == Url("roster", team_key, <<>>)
        b == BehAt(plan, 1)
        got == fetch_yahoo(url, b)
        data == IF got.kind = "value" /\ got.err = "none"
                THEN [got EXCEPT !.player =
                         Node([i \in 1..Len(roster) |-> UpstreamPlayer(roster[i])])]
                ELSE got
        first == <<Call(url, b, data)>>
        league_id == extract_league_id_from_team_key(team_key)
        n == Len(data.player.items)
        player_objects == [i \in 1..n |-> from_yahoo_data(data.player.items[i])]
    IN  IF data.kind = "raise" THEN RosterResponse(500, <<>>, <<>>, first)
        ELSE IF data.err # "none" THEN RosterResponse(500, <<>>, <<>>, first)
        ELSE IF league_id = Nothing \/ n = 0 THEN RosterResponse(200, <<>>, <<>>, first)
        ELSE RosterAfterBatch(player_objects, league_id[1], week, now, plan, first,
                 batch_fetch_player_stats([i \in 1..n |-> i], player_objects,
                                          [i \in 1..n |-> <<>>], league_id[1], None, week,
                                          now, plan, 1))

----------------------------------------------------------------------------
(* routes.get_team_stats (GET /team/<team_key>/stats?week=) *)

(* float(value): the number of a numeric string, ValueError otherwise. *)
ParseFloat(value) ==
    IF value = "10" THEN Some(10)
    ELSE IF value = "20" THEN Some(20)
    ELSE IF value = "0" THEN Some(0)
    ELSE Nothing

(* routes.py 377-381: num_value of a stat value, or nothing when the stat   *)
(* is skipped (float raised).                                               *)
NumValue(value) == IF value = None THEN Some(0) ELSE ParseFloat(value)

(* dict[sid] += num_value, the entry starting at 0 (routes.py 384-386 and   *)
(* 389-391).                                                                *)
AddTo(sums, sid, num_value) ==
    [x \in DOMAIN sums \cup {sid} |->
        (IF x \in DOMAIN sums THEN sums[x] ELSE 0) + (IF x = sid THEN num_value ELSE 0)]

(* The inner loop of routes.py 372-391 over the stats of one player. *)
RECURSIVE AddStats(_, _)
AddStats(sums, stats) ==
    IF Len(stats) = 0 THEN sums
    ELSE LET num_value == NumValue(Head(stats).value)
         IN  AddStats(IF num_value = Nothing THEN sums
                      ELSE AddTo(sums, Head(stats).stat_id, num_value[1]),
                      Tail(stats))

(* player_obj.position or "UNKNOWN", position being the primary_position of *)
(* the roster entry (models.py 99).                                         *)
PositionOf(player_data) ==
    IF player_data.primary_position = None THEN "UNKNOWN" ELSE player_data.primary_position

(* The outer loop of routes.py 364-391: players is the list of              *)
(* [position, stats] of the roster, stats being what get_stats returned.    *)
RECURSIVE Aggregate(_, _, _)
Aggregate(players, stats_by_position, total_stats_dict) ==
    IF Len(players) = 0
    THEN [stats_by_position |-> stats_by_position, total_stats_dict |-> total_stats_dict]
    ELSE LET pl == Head(players)
         IN  IF pl.stats = Nothing
             THEN Aggregate(Tail(players), stats_by_position, total_stats_dict)
             ELSE LET position == pl.position
                      before == IF position \in DOMAIN stats_by_position
                                THEN stats_by_position[position] ELSE <<>>
                  IN  Aggregate(Tail(players),
                                [q \in DOMAIN stats_by_position \cup {position} |->
                                    IF q = position THEN AddStats(before, pl.stats[1].stats)
                                    ELSE stats_by_position[q]],
                                AddStats(total_stats_dict, pl.stats[1].stats))

(* The get_stats calls of routes.py 365, one object after the other. *)
RECURSIVE TeamGetStats(_, _, _, _, _, _, _, _)
TeamGetStats(objs, caches, league_id, week, now, plan, first, done) ==
    IF Len(done) = Len(objs) THEN done
    ELSE LET i == Len(done) + 1
             used == Len(Flatten([j \in 1..Len(done) |-> done[j].calls]))
             r == get_stats(objs[i], caches[i], league_id,
                            IF week # None THEN "week" ELSE "season", week, FALSE, now,
                            plan, first + used)
         IN  TeamGetStats(objs, caches, league_id, week, now, plan, first, Append(done, r))

TeamStatsResponse(status, players, stats_by_position, total_stats, calls) ==
    [status |-> status, players |-> players, stats_by_position |-> stats_by_position,
     total_stats |-> total_stats, calls |-> calls]

(* routes.py 352-425: what get_team_stats does once the batch prefetch has   *)
(* returned: the category lookup, get_stats for every player, the rollup    *)
(* and the response.                                                        *)
TeamStatsAfterBatch(players_data, player_objects, league_id, week, now, plan, first, batch) ==
    LET n == Len(players_data)
        cats == get_league_stat_categories(league_id, BehAt(plan, 2 + Len(batch.calls)))
        got_stats == TeamGetStats(player_objects, batch.caches, league_id, week, now,
                                  plan, 2 + Len(batch.calls), <<>>)
        players == [i \in 1..n |-> [player_key |-> player_objects[i].player_key,
                                    position |-> PositionOf(players_data[i]),
                                    stats |-> got_stats[i].ret]]
        sums == Aggregate(players, <<>>, <<>>)
    IN  TeamStatsResponse(200, players, sums.stats_by_position, sums.total_stats_dict,
            first \o batch.calls \o cats.calls
                  \o Flatten([i \in 1..n |-> got_stats[i].calls]))

get_team_stats(team_key, roster, week, now, plan) ==
    LET league_id == extract_league_id_from_team_key(team_key)
        url == Url("roster", team_key, <<>>)
        b == BehAt(plan, 1)
        got == fetch_yahoo(url, b)
        roster_data == IF got.kind = "value" /\ got.err = "none"
                       THEN [got EXCEPT !.player =
                                Node([i \in 1..Len(roster) |-> UpstreamPlayer(roster[i])])]
                       ELSE got
        first == <<Call(url, b, roster_data)>>
        players_data == roster_data.player.items
        n == Len(players_data)
        player_objects == [i \in 1..n |-> from_yahoo_data(players_data[i])]
    IN  IF league_id = Nothing THEN TeamStatsResponse(400, <<>>, <<>>, <<>>, <<>>)
        ELSE IF roster_data.kind = "raise"
        THEN TeamStatsResponse(500, <<>>, <<>>, <<>>, first)
        ELSE IF roster_data.err # "none"
        THEN TeamStatsResponse(500, <<>>, <<>>, <<>>, first)
        ELSE IF n = 0 THEN TeamStatsResponse(200, <<>>, <<>>, <<>>, first)
        ELSE TeamStatsAfterBatch(players_data, player_objects, league_id[1], week, now,
                 plan, first,
                 batch_fetch_player_stats([i \in 1..n |-> i], player_objects,
                                          [i \in 1..n |-> <<>>], league_id[1], None, week,
                                          now, plan, 1))

----------------------------------------------------------------------------
(* routes.get_waivers (GET /waivers) *)

VALID_POSITIONS == {"QB", "RB", "WR", "TE", "DEF", "K"}

VALID_STATUSES == {"A", "FA", "W"}

DEFAULT_POSITION == "ALL"

DEFAULT_STATUS == "A"

(* routes._validate_waivers_params: <<is_valid, error_message>>. *)
_validate_waivers_params(league_id, position, status) ==
    IF league_id = <<>> THEN <<FALSE, "league_id is required">>
    ELSE IF position # DEFAULT_POSITION /\ position \notin VALID_POSITIONS
    THEN <<FALSE, "Invalid position">>
    ELSE IF status \notin VALID_STATUSES THEN <<FALSE, "Invalid status">>
    ELSE <<TRUE, "">>

WaiversResponse(status, error, players, calls) ==
    [status |-> status, error |-> error, players |-> players, calls |-> calls]

(* routes.py 591-606: the 200 response, listed being what the batch         *)
(* prefetch and the to_dict calls gave for the parsed players.              *)
WaiversListed(listed) == WaiversResponse(200, None, listed.dicts, listed.calls)

(* routes.py 581-610: get_waivers after its parameters were found valid;    *)
(* pool is the list of player keys the upstream holds for the filter.       *)
WaiversFetch(league_id, week, pool, now, plan) ==
    LET url == Url("players", league_id, <<>>)
        b == BehAt(plan, 1)
        got == fetch_yahoo(url, b)
        data == IF got.kind = "value" /\ got.err = "none"
                THEN [got EXCEPT !.player =
                         Node([i \in 1..Len(pool) |-> UpstreamPlayer(pool[i])])]
                ELSE got
        first == <<Call(url, b, data)>>
        parsed_players == parse_yahoo_players_response(data.player)
        n == Len(parsed_players)
    IN  IF data.kind = "raise"
        THEN WaiversResponse(500, "Failed to fetch waivers data", <<>>, first)
        ELSE IF data.err # "none" THEN WaiversResponse(500, "upstream error", <<>>, first)
        ELSE IF n = 0 THEN WaiversResponse(200, None, <<>>, first)
        ELSE WaiversListed(
                 RosterAfterBatch(parsed_players, league_id, week, now, plan, first,
                     batch_fetch_player_stats([i \in 1..n |-> i], parsed_players,
                                              [i \in 1..n |-> <<>>], league_id, None, week,
                                              now, plan, 1)))

(* routes.get_waivers.  league_arg is request.args.get("league_id"):        *)
(* nothing (None) when the parameter is absent.  normalize_league_id        *)
(* (routes.py 572) calls league_id.isdigit(), which raises AttributeError   *)
(* on None; the call is outside the handler's try, so the framework answers *)
(* 500.                                                                     *)
get_waivers(league_arg, position, status, week, pool, now, plan) ==
    IF league_arg = Nothing
    THEN WaiversResponse(500, "Internal Server Error", <<>>, <<>>)
    ELSE LET league_id == normalize_league_id(league_arg[1])
             checked == _validate_waivers_params(league_id, position, status)
         IN  IF ~checked[1] THEN WaiversResponse(400, checked[2], <<>>, <<>>)
             ELSE WaiversFetch(league_id, week, pool, now, plan)

----------------------------------------------------------------------------
(* Inputs *)

(* Key lists as batch_fetch_player_stats and the /player route hand them to *)
(* _fetch_players_stats: without repetition.                                *)
KeyLists ==
    { s \in UNION {[1..n -> Keys] : n \in 1..Cardinality(Keys)} :
        \A i, j \in 1..Len(s) : i # j => s[i] # s[j] }

(* player_key / player_keys query arguments of /player, repetitions allowed. *)
RawKeyLists == KeyLists \cup {<<>>, <<"A", "A">>, <<"A", "X", "A">>}

RouteLeagues == RawLeagues \cup {<<>>}

RouteScopes == {<<None, None>>, <<"week", "3">>, <<"week", None>>}

(* The cache keys the callers' leagues and scopes give. *)
CacheKeys ==
    { cache_key(normalize_league_id(l), sc[1], sc[2]) : l \in RawLeagues, sc \in Scopes }

(* Upstream states: the accepted keys, one set per number of accepted keys  *)
(* (the key lists range over every choice and order of keys).               *)
ValidSets == {{}, {"A"}, {"A", "B"}, {"A", "B", "X"}}

(* Lists of the long-lived Player objects given to batch_fetch_player_stats. *)
PlayerLists == {<<"p1">>, <<"p1", "p2">>}

(* Rosters the upstream holds for the team, and the team's key. *)
Rosters == {<<"A">>, <<"A", "B">>, <<"A", "X">>}

TeamKey == <<"461", ".l.", "12345", ".t.", "1">>

Weeks == {None, "3"}

(* The most fetch_yahoo calls _fetch_players_stats makes: the batch call,   *)
(* the settings call and one call per key.                                  *)
FetchSlots == Cardinality(Keys) + 2

(* get_stats makes at most the stats call and the settings call. *)
GetStatsSlots == Cardinality({"stats", "settings"})

(* get_roster: the roster call, _fetch_players_stats for at most two        *)
(* players, and get_stats for each of them.                                 *)
RosterSlots == Cardinality({"roster"}) + (FetchSlots - 1) + GetStatsSlots + GetStatsSlots

(* GET /waivers requests: the league_id argument (absent, empty or digits), *)
(* position and status.                                                     *)
WaiverArgs ==
    { <<l, DEFAULT_POSITION, DEFAULT_STATUS>> :
          l \in {Nothing, Some(<<>>), Some(<<"12345">>)} }
        \cup { <<Nothing, "QB", "W">>, <<Some(<<"12345">>), "QB", "W">>,
               <<Some(<<"12345">>), "XX", "A">>, <<Some(<<"12345">>), "QB", "ZZ">> }

(* Players on waivers the upstream holds. *)
WaiverPools == {<<"A", "B">>, <<"A", "X">>}

(* get_team_stats: as get_roster, and the settings call of its own. *)
TeamSlots == RosterSlots + Cardinality({"settings"})

----------------------------------------------------------------------------
(* The state machine.  An operation runs when no other is in progress; its  *)
(* observation stays in last until its caller has taken the result (Done).  *)

NoOp == [op |-> "none"]

(* Request threads of the server. *)
Threads == {"t1", "t2"}

(* A thread that is in no call. *)
IdleThread ==
    [pc |-> "idle", op |-> "none", force_refresh |-> FALSE, cached_data |-> Nothing,
     result |-> Nothing, entry |-> Nothing, ret |-> Nothing]

(* A thread that is not in yahoo_client. *)
IdleClient == [pc |-> "idle", v |-> Nothing, now |-> 0, item |-> Nothing, ret |-> Nothing]

(* No call is in progress in any thread. *)
NoThreads ==
    /\ thread = [t \in Threads |-> IdleThread]
    /\ writes = <<>>
    /\ _CACHE = <<>>
    /\ client = [t \in Threads |-> IdleClient]

Idle == last.op = "none"

Init ==
    /\ clock = 0
    /\ token = FALSE
    /\ ver = 1
    /\ valid \in ValidSets
    /\ rej \in [form : RejForms, desc : Descs]
    /\ cache = [p \in Players |-> <<>>]
    /\ nops = 0
    /\ nticks = 0
    /\ last = NoOp
    /\ NoThreads

(* Time passes: up to one second before a TTL window after the start has   *)
(* gone by, then second by second, so that entries stored at the start are  *)
(* seen at the ages TTL - 1, TTL, TTL + 1, ... and later entries when young. *)
Tick ==
    /\ Idle
    /\ nticks < MaxTicks
    /\ clock' = IF clock < CACHE_TTL - 1 THEN CACHE_TTL - 1 ELSE clock + 1
    /\ nticks' = nticks + 1
    /\ UNCHANGED <<thread, writes, _CACHE, client>>
    /\ UNCHANGED <<token, ver, valid, rej, cache, nops, last>>

(* The upstream publishes other statistics. *)
UpstreamUpdate ==
    /\ Idle
    /\ ver' = IF ver = 1 THEN 2 ELSE 1
    /\ UNCHANGED <<thread, writes, _CACHE, client>>
    /\ UNCHANGED <<clock, token, valid, rej, cache, nops, nticks, last>>

(* routes.callback: the OAuth callback saves a token (auth.save_token). *)
Callback ==
    /\ Idle
    /\ ~token
    /\ token' = TRUE
    /\ UNCHANGED <<thread, writes, _CACHE, client>>
    /\ UNCHANGED <<clock, ver, valid, rej, cache, nops, nticks, last>>

(* The caller has taken the result of the last operation. *)
Done ==
    /\ ~Idle
    /\ last' = NoOp
    /\ UNCHANGED <<thread, writes, _CACHE, client>>
    /\ UNCHANGED <<clock, token, ver, valid, rej, cache, nops, nticks>>

(* A call of yahoo_api._fetch_players_stats. *)
FetchPlayersStats ==
    /\ Idle
    /\ \E player_keys \in KeyLists, sc \in {<<None, None>>, <<"week", "3">>},
          plan \in Plans(FetchSlots) \cup PayloadPlans(FetchSlots) :
       \E res \in {_fetch_players_stats(normalize_league_id(<<"12345">>), player_keys,
                                        sc[1], sc[2], plan, 0)} :
         last' = [op |-> "_fetch_players_stats", player_keys |-> player_keys,
                  kind |-> res.kind, value |-> res.value, exc |-> res.exc,
                  calls |-> res.calls]
    /\ UNCHANGED <<thread, writes, _CACHE, client>>
    /\ UNCHANGED <<clock, token, ver, valid, rej, cache, nops, nticks>>

(* GET /player *)
PlayerRoute ==
    /\ Idle
    /\ \E raw_league_id \in RouteLeagues, raw_keys \in RawKeyLists, sc \in RouteScopes,
          plan \in Plans(FetchSlots) :
         LET resp == get_player_stats(raw_league_id, raw_keys, sc[1], sc[2], plan)
         IN  last' = [op |-> "/player", league_id |-> raw_league_id,
                      raw_keys |-> raw_keys, stats_type |-> sc[1], week |-> sc[2],
                      response |-> resp]
    /\ UNCHANGED <<thread, writes, _CACHE, client>>
    /\ UNCHANGED <<clock, token, ver, valid, rej, cache, nops, nticks>>


----------------------------------------------------------------------------
(* Operations on the long-lived Player objects *)

Self(p) == PlayerObj(PlayerKeyOf(p), None, None)

(* Player.get_stats *)
GetStats ==
    /\ Idle
    /\ nops < MaxOps
    /\ \E p \in Players, league_id \in RawLeagues, sc \in Scopes,
          force_refresh \in BOOLEAN, plan \in Plans(GetStatsSlots) :
         LET r == get_stats(Self(p), cache[p], league_id, sc[1], sc[2], force_refresh,
                            clock, plan, 0)
         IN  /\ cache' = [cache EXCEPT ![p] = r.cache]
             /\ last' = [op |-> "get_stats", p |-> p, league_id |-> league_id,
                         stats_type |-> sc[1], week |-> sc[2],
                         force_refresh |-> force_refresh, now |-> clock,
                         pre_cache |-> cache[p], ret |-> r.ret, calls |-> r.calls]
    /\ nops' = nops + 1
    /\ UNCHANGED <<thread, writes, _CACHE, client>>
    /\ UNCHANGED <<clock, token, ver, valid, rej, nticks>>

(* batch_fetch_player_stats *)
BatchFetch ==
    /\ Idle
    /\ nops < MaxOps
    /\ \E objs \in PlayerLists, league_id \in {<<d>> : d \in Digits}, sc \in Scopes :
       \E plan \in Plans(Len(objs) + 2) :
       \E r \in {batch_fetch_player_stats(objs, [p \in Players |-> Self(p)], cache,
                                          league_id, sc[1], sc[2], clock, plan, 0)} :
             /\ cache' = r.caches
             /\ last' = [op |-> "batch_fetch_player_stats", objs |-> objs,
                         league_id |-> league_id, stats_type |-> sc[1], week |-> sc[2],
                         now |-> clock, pre_caches |-> cache, ret |-> r.ret,
                         calls |-> r.calls]
    /\ nops' = nops + 1
    /\ UNCHANGED <<thread, writes, _CACHE, client>>
    /\ UNCHANGED <<clock, token, ver, valid, rej, nticks>>

(* Player.clear_stats_cache *)
ClearStatsCache ==
    /\ Idle
    /\ nops < MaxOps
    /\ \E p \in Players : \E ck \in {Nothing} \cup {Some(k) : k \in CacheKeys} :
         /\ cache' = [cache EXCEPT ![p] = clear_stats_cache(cache[p], ck)]
         /\ last' = [op |-> "clear_stats_cache", p |-> p, cache_key |-> ck,
                     pre_cache |-> cache[p]]
    /\ nops' = nops + 1
    /\ UNCHANGED <<thread, writes, _CACHE, client>>
    /\ UNCHANGED <<clock, token, ver, valid, rej, nticks>>

(* The caching tier: the long-lived Player objects and their caches, with a *)
(* credential in place and an upstream that accepts A and B and rejects X   *)
(* (so p1 has statistics and p2 has none).                                  *)
InitCache ==
    /\ clock = 0
    /\ token = TRUE
    /\ ver = 1
    /\ valid = {"A", "B"}
    /\ rej = [form |-> "err200", desc |-> <<"Player", "key", "does not exist">>]
    /\ cache = [p \in Players |-> <<>>]
    /\ nops = 0
    /\ nticks = 0
    /\ last = NoOp
    /\ NoThreads

Next ==
    \/ Tick
    \/ UpstreamUpdate
    \/ GetStats
    \/ BatchFetch
    \/ ClearStatsCache
    \/ Done

Spec == InitCache /\ [][Next]_vars

(* GET /roster/<team_key> *)
RosterRoute ==
    /\ Idle
    /\ \E roster \in Rosters, week \in Weeks, plan \in Plans(RosterSlots) :
         last' = [op |-> "/roster", roster |-> roster, week |-> week, now |-> clock,
                  response |-> get_roster(TeamKey, roster, week, clock, plan)]
    /\ UNCHANGED <<thread, writes, _CACHE, client>>
    /\ UNCHANGED <<clock, token, ver, valid, rej, cache, nops, nticks>>

(* The two parsers of the league players collection, applied to the reply   *)
(* the upstream gives for a list of keys (none, one or several players).    *)
ParsePlayers ==
    /\ Idle
    /\ \E keys \in KeyLists \cup {<<>>} :
         LET node == Node([i \in 1..Len(keys) |-> UpstreamPlayer(keys[i])])
         IN  last' = [op |-> "parse_players", keys |-> keys, shape |-> node.shape,
                      stats |-> parse_multi_player_stats_response(node),
                      players |-> parse_yahoo_players_response(node)]
    /\ UNCHANGED <<thread, writes, _CACHE, client>>
    /\ UNCHANGED <<clock, token, ver, valid, rej, cache, nops, nticks>>

(* GET /team/<team_key>/stats *)
TeamStatsRoute ==
    /\ Idle
    /\ \E roster \in Rosters \cup {<<>>}, week \in Weeks, plan \in Plans(TeamSlots) :
         last' = [op |-> "/team/stats", roster |-> roster, week |-> week, now |-> clock,
                  response |-> get_team_stats(TeamKey, roster, week, clock, plan)]
    /\ UNCHANGED <<thread, writes, _CACHE, client>>
    /\ UNCHANGED <<clock, token, ver, valid, rej, cache, nops, nticks>>

(* GET /waivers *)
WaiversRoute ==
    /\ Idle
    /\ \E args \in WaiverArgs, week \in Weeks, pool \in WaiverPools,
          plan \in Plans(RosterSlots) :
         last' = [op |-> "/waivers", league_id |-> args[1], position |-> args[2],
                  status |-> args[3], week |-> week,
                  response |-> get_waivers(args[1], args[2], args[3], week, pool,
                                           clock, plan)]
    /\ UNCHANGED <<thread, writes, _CACHE, client>>
    /\ UNCHANGED <<clock, token, ver, valid, rej, cache, nops, nticks>>

(* A call of yahoo_api.get_league_stat_categories. *)
LeagueStatCategories ==
    /\ Idle
    /\ \E league_id \in {normalize_league_id(l) : l \in RawLeagues}, b \in Behaviours :
         LET r == get_league_stat_categories(league_id, b)
         IN  last' = [op |-> "get_league_stat_categories", league_id |-> league_id,
                      map |-> r.map, calls |-> r.calls]
    /\ UNCHANGED <<thread, writes, _CACHE, client>>
    /\ UNCHANGED <<clock, token, ver, valid, rej, cache, nops, nticks>>

(* The request tier: the operations that keep nothing between requests,   *)
(* _fetch_players_stats, the /player route and the /roster route (whose     *)
(* Player objects live for one request).                                    *)
NextFetch ==
    \/ Callback
    \/ FetchPlayersStats
    \/ PlayerRoute
    \/ RosterRoute
    \/ ParsePlayers
    \/ LeagueStatCategories
    \/ TeamStatsRoute
    \/ WaiversRoute
    \/ Done

SpecFetch == Init /\ [][NextFetch]_vars

----------------------------------------------------------------------------
(* Concurrent calls on one Player and one cache key.  The request threads   *)
(* of the server run Player.get_stats and batch_fetch_player_stats on the   *)
(* same Player object; a thread can be suspended between any two of the     *)
(* steps below, each of which is one access to the dictionary or one call.  *)

RacePlayer == "p1"

RaceLeague == normalize_league_id(<<"12345">>)

RaceKey == cache_key(RaceLeague, None, None)

(* The entry an earlier, finished get_stats has left. *)
EarlierEntry ==
    get_stats(Self(RacePlayer), <<>>, RaceLeague, None, None, FALSE, 0, {}, 0).cache[RaceKey]

ThreadOps == {<<"get_stats", FALSE>>, <<"get_stats", TRUE>>,
              <<"batch_fetch_player_stats", FALSE>>}

InitRace ==
    /\ clock = 0
    /\ token = TRUE
    /\ ver = 1
    /\ valid = {"A", "B"}
    /\ rej = [form |-> "err200", desc |-> <<"Player", "key", "does not exist">>]
    /\ nops = 0
    /\ nticks = 0
    /\ last = NoOp
    /\ thread = [t \in Threads |-> IdleThread]
    /\ _CACHE = <<>>
    /\ client = [t \in Threads |-> IdleClient]
    /\ \E filled \in BOOLEAN :
         /\ cache = [p \in Players |->
                       IF filled /\ p = RacePlayer
                       THEN Store(<<>>, RaceKey, EarlierEntry) ELSE <<>>]
         /\ writes = IF filled THEN <<[by |-> "earlier", entry |-> EarlierEntry]>>
                     ELSE <<>>

(* A thread enters get_stats (models.py 165) or batch_fetch_player_stats    *)
(* (yahoo_api.py 506).                                                      *)
ThreadCall ==
    /\ nops < MaxOps
    /\ \E t \in Threads, o \in ThreadOps :
         /\ thread[t].pc = "idle"
         /\ thread' = [thread EXCEPT ![t] =
                          [IdleThread EXCEPT !.pc = IF o[1] = "get_stats" THEN "check"
                                                   ELSE "fetch",
                                             !.op = o[1], !.force_refresh = o[2]]]
    /\ nops' = nops + 1
    /\ UNCHANGED <<clock, token, ver, valid, rej, cache, nticks, last, writes, _CACHE, client>>

(* models.py 191: if not force_refresh and cache_key in self._stats_cache *)
ThreadCheck ==
    /\ \E t \in Threads :
         /\ thread[t].pc = "check"
         /\ thread' = [thread EXCEPT ![t].pc =
                          IF ~thread[t].force_refresh /\ RaceKey \in DOMAIN cache[RacePlayer]
                          THEN "read" ELSE "fetch"]
    /\ UNCHANGED <<clock, token, ver, valid, rej, cache, nops, nticks, last, writes, _CACHE, client>>

(* models.py 192: cached_data = self._stats_cache[cache_key] *)
ThreadRead ==
    /\ \E t \in Threads :
         /\ thread[t].pc = "read"
         /\ thread' = [thread EXCEPT ![t].cached_data = Lookup(cache[RacePlayer], RaceKey),
                                      ![t].pc = "age"]
    /\ UNCHANGED <<clock, token, ver, valid, rej, cache, nops, nticks, last, writes, _CACHE, client>>

(* models.py 193-196: the age test on the entry that was read, and the      *)
(* return of its stats.                                                     *)
ThreadAge ==
    /\ \E t \in Threads :
         /\ thread[t].pc = "age"
         /\ thread' = [thread EXCEPT ![t] =
                          IF CacheFresh(thread[t].cached_data[1], clock)
                          THEN [thread[t] EXCEPT !.ret = Some(thread[t].cached_data[1].stats),
                                                 !.pc = "idle"]
                          ELSE [thread[t] EXCEPT !.pc = "fetch"]]
    /\ UNCHANGED <<clock, token, ver, valid, rej, cache, nops, nticks, last, writes, _CACHE, client>>

(* What the fetch of a thread brings: the result of models.py 199-229 for   *)
(* get_stats, the stat_data of the Player's key of yahoo_api.py 539-548 for *)
(* batch_fetch_player_stats; nothing when the fetch failed.                 *)
ThreadFetched(op, plan) ==
    IF op = "get_stats"
    THEN FetchFresh(Self(RacePlayer), <<>>, RaceKey, RaceLeague, None, None, clock, plan, 0).ret
    ELSE LET d == batch_fetch_player_stats(<<RacePlayer>>, [p \in Players |-> Self(p)],
                                           [p \in Players |-> <<>>], RaceLeague, None, None,
                                           clock, plan, 0).ret
             k == PlayerKeyOf(RacePlayer)
         IN  IF k \in DOMAIN d THEN Some(d[k]) ELSE Nothing

(* The requests of a racing call all arrive, or its stats request fails. *)
RacePlans == {{}, {<<1, "neterr">>}}

(* models.py 199-229, yahoo_api.py 539: the upstream requests of the call.  *)
ThreadFetch ==
    /\ \E t \in Threads, plan \in RacePlans :
         /\ thread[t].pc = "fetch"
         /\ \E r \in {ThreadFetched(thread[t].op, plan)} :
              thread' = [thread EXCEPT ![t] =
                           IF r = Nothing THEN IdleThread
                           ELSE [thread[t] EXCEPT !.result = r,
                                                  !.cached_data = Nothing, !.pc = "build"]]
    /\ UNCHANGED <<clock, token, ver, valid, rej, cache, nops, nticks, last, writes, _CACHE, client>>

(* models.py 230-233, yahoo_api.py 552-555: the dictionary                  *)
(* {"stats": ..., "timestamp": time.time()} is built.                       *)
ThreadBuild ==
    /\ \E t \in Threads :
         /\ thread[t].pc = "build"
         /\ thread' = [thread EXCEPT ![t].entry = Some(CacheEntry(thread[t].result[1], clock)),
                                      ![t].pc = "store"]
    /\ UNCHANGED <<clock, token, ver, valid, rej, cache, nops, nticks, last, writes, _CACHE, client>>

(* models.py 230, yahoo_api.py 552: the dictionary is assigned to           *)
(* _stats_cache[cache_key], and the call returns.                           *)
ThreadStore ==
    /\ \E t \in Threads :
         /\ thread[t].pc = "store"
         /\ cache' = [cache EXCEPT ![RacePlayer] =
                         Store(cache[RacePlayer], RaceKey, thread[t].entry[1])]
         /\ writes' = Append(writes, [by |-> t, entry |-> thread[t].entry[1]])
         /\ thread' = [thread EXCEPT ![t] = IdleThread]
    /\ UNCHANGED <<clock, token, ver, valid, rej, nops, nticks, last, _CACHE, client>>

NextRace ==
    \/ Tick
    \/ UpstreamUpdate
    \/ ThreadCall
    \/ ThreadCheck
    \/ ThreadRead
    \/ ThreadAge
    \/ ThreadFetch
    \/ ThreadBuild
    \/ ThreadStore

SpecRace == InitRace /\ [][NextRace]_vars

----------------------------------------------------------------------------
(* yahoo_client: the process-wide cache _CACHE, read and written by the     *)
(* request threads through league_metadata.  A thread can be suspended      *)
(* between any two of the steps below.                                      *)

(* league_metadata: ck = f"league_meta:{key}" *)
MetaKey == <<"league_meta:", "461", ".l.", "12345">>

(* league_metadata: ttl=600 *)
META_TTL == 600

(* What _yq.get_league_metadata() brings. *)
LeagueMetadata == <<"metadata", ver>>

(* _cache_set builds (data, time.time() + ttl). *)
CacheItem(data, now, ttl) == <<data, now + ttl>>

InitClient ==
    /\ clock = 0
    /\ token = TRUE
    /\ ver = 1
    /\ valid = {"A", "B"}
    /\ rej = [form |-> "err200", desc |-> <<"Player", "key", "does not exist">>]
    /\ cache = [p \in Players |-> <<>>]
    /\ nops = 0
    /\ nticks = 0
    /\ last = NoOp
    /\ thread = [t \in Threads |-> IdleThread]
    /\ writes = <<>>
    /\ client = [t \in Threads |-> IdleClient]
    /\ _CACHE \in {<<>>, Store(<<>>, MetaKey, CacheItem(<<"metadata", 1>>, 0, META_TTL))}

(* A thread enters league_metadata (yahoo_client.py 74-76). *)
ClientCall ==
    /\ nops < MaxOps
    /\ \E t \in Threads :
         /\ client[t].pc = "idle"
         /\ client' = [client EXCEPT ![t] = [IdleClient EXCEPT !.pc = "get"]]
    /\ nops' = nops + 1
    /\ UNCHANGED <<clock, token, ver, valid, rej, cache, nticks, last, thread, writes, _CACHE>>

(* yahoo_client.py 30: v = _CACHE.get(k) *)
CacheGetRead ==
    /\ \E t \in Threads :
         /\ client[t].pc = "get"
         /\ client' = [client EXCEPT ![t].v = Lookup(_CACHE, MetaKey), ![t].pc = "test"]
    /\ UNCHANGED <<clock, token, ver, valid, rej, cache, nops, nticks, last, thread, writes, _CACHE>>

(* yahoo_client.py 31-34, 37 and 77-78: no entry sends the caller to the    *)
(* upstream, an entry with exp < time.time() goes to the pop, another       *)
(* entry's data is returned.                                                *)
CacheGetTest ==
    /\ \E t \in Threads :
         /\ client[t].pc = "test"
         /\ client' = [client EXCEPT ![t] =
                          IF client[t].v = Nothing
                          THEN [client[t] EXCEPT !.pc = "fetch"]
                          ELSE IF client[t].v[1][2] < clock
                          THEN [client[t] EXCEPT !.now = clock, !.pc = "pop"]
                          ELSE [IdleClient EXCEPT !.ret = Some(client[t].v[1][1])]]
    /\ UNCHANGED <<clock, token, ver, valid, rej, cache, nops, nticks, last, thread, writes, _CACHE>>

(* yahoo_client.py 35-36: _CACHE.pop(k, None); return None *)
CacheGetPop ==
    /\ \E t \in Threads :
         /\ client[t].pc = "pop"
         /\ _CACHE' = [x \in DOMAIN _CACHE \ {MetaKey} |-> _CACHE[x]]
         /\ client' = [client EXCEPT ![t].pc = "fetch"]
    /\ UNCHANGED <<clock, token, ver, valid, rej, cache, nops, nticks, last, thread, writes>>

(* yahoo_client.py 79 and 40: data = _yq.get_league_metadata(), and the     *)
(* tuple (data, time.time() + ttl) of _cache_set.                           *)
MetadataFetch ==
    /\ \E t \in Threads :
         /\ client[t].pc = "fetch"
         /\ client' = [client EXCEPT ![t].item = Some(CacheItem(LeagueMetadata, clock, META_TTL)),
                                      ![t].v = Nothing, ![t].pc = "set"]
    /\ UNCHANGED <<clock, token, ver, valid, rej, cache, nops, nticks, last, thread, writes, _CACHE>>

(* yahoo_client.py 40: _CACHE[k] = (data, exp), and league_metadata returns *)
(* data.                                                                    *)
CacheSet ==
    /\ \E t \in Threads :
         /\ client[t].pc = "set"
         /\ _CACHE' = Store(_CACHE, MetaKey, client[t].item[1])
         /\ client' = [client EXCEPT ![t] = [IdleClient EXCEPT !.ret = Some(client[t].item[1][1])]]
    /\ UNCHANGED <<clock, token, ver, valid, rej, cache, nops, nticks, last, thread, writes>>

NextClient ==
    \/ Tick
    \/ UpstreamUpdate
    \/ ClientCall
    \/ CacheGetRead
    \/ CacheGetTest
    \/ CacheGetPop
    \/ MetadataFetch
    \/ CacheSet

SpecClient == InitClient /\ [][NextClient]_vars

----------------------------------------------------------------------------
(* Observations of the last operation used by the properties below. *)

IsFetch == last.op = "_fetch_players_stats"

IsPlayerRoute == last.op = "/player"

KeysOf(enriched) == {enriched[i].player_key : i \in 1..Len(enriched)}

KeySeq(enriched) == [i \in 1..Len(enriched) |-> enriched[i].player_key]

(* The calls of the log that ask for player statistics. *)
StatsCalls(calls) == {i \in 1..Len(calls) : calls[i].url.res = "stats"}

(* The call asks for the statistics of the single key k. *)
IsIndividualCall(c, k) == c.url.res = "stats" /\ c.url.keys = <<k>>

(* The call met no valid credential: no token, or HTTP 401. *)
MetUnauthenticated(c) == ~c.sent \/ c.outcome = <<"HTTPError", 401>>

(* The call met a network error or an upstream 5xx. *)
MetTransient(c) == c.sent /\ c.outcome \in {<<"HTTPError", 500>>, <<"ConnectionError", 0>>}

(* The upstream answered the call with its rejection of an invalid key. *)
RejectedAsInvalid(c) ==
    /\ c.sent
    /\ c.outcome \in {<<"error", 200>>, <<"HTTPError", 400>>}
    /\ rej.desc \in { <<"Player", "key", "does not exist">>, <<"Invalid", "player", "key">> }

(* The valid keys of the request, in request order. *)
ValidInOrder(player_keys) ==
    Filter(player_keys, valid)

(* The case of C1: a key list with a valid and an invalid key, the batch    *)
(* call rejected as invalid, every valid key accepted on its own.           *)
C1Case ==
    /\ IsFetch
    /\ \E k \in SeqToSet(last.player_keys) : k \in valid
    /\ \E k \in SeqToSet(last.player_keys) : k \notin valid
    /\ RejectedAsInvalid(last.calls[1])
    /\ \A i \in 2..Len(last.calls) : \A k \in valid :
          IsIndividualCall(last.calls[i], k) => last.calls[i].outcome = <<"data", 200>>

(* C1: partial-failure containment.  When the batch for a key list with a   *)
(* valid and an invalid key is rejected as invalid and every valid key is   *)
(* accepted on its own, _fetch_players_stats returns exactly one entry per  *)
(* valid key, none for an invalid key, and never the empty list.            *)
C1_PartialFailureContainment ==
    C1Case =>
        /\ last.kind = "return"
        /\ KeySeq(last.value) = ValidInOrder(last.player_keys)
        /\ Len(last.value) >= 1

(* Two valid keys around an invalid one come back as two entries. *)
C1_Witness ==
    /\ C1Case
    /\ last.kind = "return"
    /\ last.player_keys = <<"A", "X", "B">>
    /\ KeySeq(last.value) = <<"A", "B">>

(* C7: an Unauthenticated failure aborts the whole stats request at either  *)
(* level: _fetch_players_stats raises to its caller, and the call that met  *)
(* it is the last call made (no further player is fetched, no partial list  *)
(* is returned).                                                            *)
C7_UnauthenticatedAborts ==
    IsFetch =>
        \A i \in StatsCalls(last.calls) :
            MetUnauthenticated(last.calls[i]) =>
                /\ last.kind = "raise"
                /\ i = Len(last.calls)

(* C8: a Transient failure of an upstream stats call is raised to the       *)
(* caller of _fetch_players_stats unmodified, at the batch tier and at the  *)
(* individual tier, and the failed call is not repeated.                    *)
C8_TransientPropagates ==
    IsFetch =>
        \A i \in StatsCalls(last.calls) :
            MetTransient(last.calls[i]) =>
                /\ last.kind = "raise"
                /\ last.exc = last.calls[i].outcome
                /\ \A j \in StatsCalls(last.calls) :
                      j # i => last.calls[j].url # last.calls[i].url

(* C9: the requested keys missing from the result of _fetch_players_stats   *)
(* are exactly the keys the upstream rejects as invalid.                    *)
C9_DroppedAreExactlyRejected ==
    (IsFetch /\ last.kind = "return") =>
        SeqToSet(last.player_keys) \ KeysOf(last.value)
            = SeqToSet(last.player_keys) \ valid

(* C10: in every successful /player response each requested key is the     *)
(* player_key of a returned entry or is listed in skipped_players, and      *)
(* skipped_players is the requested key set minus the returned key set.     *)
C10_NoSilentTruncation ==
    (IsPlayerRoute /\ last.response.status = 200) =>
        LET requested == SeqToSet(last.raw_keys)
            returned == KeysOf(last.response.players)
        IN  /\ \A k \in requested : k \in returned \/ k \in last.response.skipped
            /\ last.response.skipped = requested \ returned

(* A successful response that returns one player and skips another. *)
C10_Witness ==
    /\ IsPlayerRoute
    /\ last.response.status = 200
    /\ last.raw_keys = <<"A", "X", "A">>
    /\ KeysOf(last.response.players) = {"A"}
    /\ last.response.skipped = {"X"}

----------------------------------------------------------------------------
(* Observations of the last operation on a long-lived Player object. *)

IsGetStats == last.op = "get_stats"

IsBatchFetch == last.op = "batch_fetch_player_stats"

IsRosterRoute == last.op = "/roster"

(* The cache key the last operation worked on. *)
LastKey == cache_key(normalize_league_id(last.league_id), last.stats_type, last.week)

(* The entry the object held for that key when the operation began. *)
PreEntry == last.pre_cache[LastKey]

(* Its age when the operation began. *)
Age == last.now - PreEntry.timestamp

(* The operation answered from the entry: its stats, no request, no write. *)
ServedFromCache ==
    /\ last.ret = Some(PreEntry.stats)
    /\ last.calls = <<>>
    /\ cache[last.p] = last.pre_cache

(* The operation asked the upstream for the player's statistics. *)
Fetched == last.calls # <<>> /\ last.calls[1].url.res = "stats"

FetchSucceeded == Fetched /\ last.calls[1].outcome = <<"data", 200>>

FetchFailed == Fetched /\ last.calls[1].outcome # <<"data", 200>>

(* The entry of the key now holds what the operation returned, stamped with *)
(* the time of the operation.                                               *)
EntryReplaced ==
    /\ LastKey \in DOMAIN cache[last.p]
    /\ cache[last.p][LastKey].timestamp = last.now
    /\ last.ret = Some(cache[last.p][LastKey].stats)
    /\ \A k \in DOMAIN last.pre_cache \ {LastKey} :
          k \in DOMAIN cache[last.p] /\ cache[last.p][k] = last.pre_cache[k]

(* A further get_stats on the same object for the same key at time t. *)
Again(t, plan) ==
    get_stats(Self(last.p), cache[last.p], last.league_id, last.stats_type, last.week,
              FALSE, t, plan, 0)

(* get_stats without force_refresh on a key that has an entry younger than  *)
(* the TTL.                                                                 *)
C2Case ==
    /\ IsGetStats
    /\ ~last.force_refresh
    /\ LastKey \in DOMAIN last.pre_cache
    /\ last.now - last.pre_cache[LastKey].timestamp < CACHE_TTL

(* C2: cache hit.  get_stats without force_refresh on a key whose entry is  *)
(* younger than the TTL returns the stored stats and issues no upstream     *)
(* request, and a second such call in the TTL window (at the same moment or *)
(* at the last second of the window, whatever the upstream would do)        *)
(* returns an equal value, again without a request.                         *)
C2_CacheHit ==
    C2Case =>
        /\ ServedFromCache
        /\ \A t \in {last.now, PreEntry.timestamp + CACHE_TTL - 1} :
           \A plan \in Plans(GetStatsSlots) :
              /\ Again(t, plan).ret = last.ret
              /\ Again(t, plan).calls = <<>>

(* A hit at the last second of the window, while the upstream by now holds  *)
(* other statistics than the stored ones.                                   *)
C2_Witness ==
    /\ C2Case
    /\ Age = CACHE_TTL - 1
    /\ ServedFromCache
    /\ get_stats(Self(last.p), cache[last.p], last.league_id, last.stats_type, last.week,
                 TRUE, last.now, {}, 0).ret # last.ret

(* get_stats without force_refresh on a key that has an entry. *)
C3Case ==
    /\ IsGetStats
    /\ ~last.force_refresh
    /\ LastKey \in DOMAIN last.pre_cache

(* C3 as stated: a call at an age below the TTL is served from the cache,   *)
(* and a call at an age above the TTL performs an upstream fetch and        *)
(* replaces the entry.                                                      *)
C3_AsStated ==
    C3Case =>
        /\ Age < CACHE_TTL => ServedFromCache
        /\ Age > CACHE_TTL => Fetched /\ EntryReplaced

(* C3: TTL boundary.  A call at an age below the TTL is served from the     *)
(* cache; a call at an age of the TTL or more asks the upstream, and        *)
(* replaces the entry when that fetch succeeds, while a failed fetch leaves *)
(* the cache as it was and returns None.                                    *)
C3_TTLBoundary ==
    C3Case =>
        /\ Age < CACHE_TTL => ServedFromCache
        /\ Age >= CACHE_TTL =>
              /\ Fetched
              /\ FetchSucceeded => EntryReplaced
              /\ FetchFailed => last.ret = Nothing /\ cache[last.p] = last.pre_cache

(* An entry stored at T is replaced by the call at T + TTL + 1. *)
C3_Witness ==
    /\ C3Case
    /\ Age = CACHE_TTL + 1
    /\ FetchSucceeded
    /\ EntryReplaced
    /\ cache[last.p][LastKey] # PreEntry

(* The key has no entry young enough to be served at time t. *)
NoLiveEntry(c, k, t) == k \notin DOMAIN c \/ t - c[k].timestamp >= CACHE_TTL

C5_FacadeIdempotent ==
    (/\ IsBatchFetch
     /\ \A i \in 1..Len(last.objs) :
           /\ LastKey \in DOMAIN last.pre_caches[last.objs[i]]
           /\ last.now - last.pre_caches[last.objs[i]][LastKey].timestamp < CACHE_TTL)
    => /\ last.calls = <<>>
       /\ \A i \in 1..Len(last.objs) :
             LET k == PlayerKeyOf(last.objs[i])
             IN  /\ k \in DOMAIN last.ret
                 /\ last.ret[k] = last.pre_caches[last.objs[i]][LastKey].stats

(* C6: cache population by the batch.  In the /roster route, every player   *)
(* for whom batch_fetch_player_stats returned stats has its to_dict served  *)
(* from the entry the batch stored, without an upstream request, for season *)
(* scope and for week scope.                                                *)
C6_BatchPopulatesCache ==
    (IsRosterRoute /\ last.response.status = 200) =>
        \A i \in 1..Len(last.response.dicts) :
            last.response.dicts[i].player_key \in DOMAIN last.response.batch =>
                /\ last.response.dicts[i].hit
                /\ last.response.dicts[i].calls = <<>>
                /\ last.response.dicts[i].stats
                      = Some(last.response.batch[last.response.dicts[i].player_key])

----------------------------------------------------------------------------
(* The fallback decomposition *)

(* The last _fetch_players_stats fell back to individual requests: its      *)
(* batch call was rejected as invalid.                                      *)
FellBack == IsFetch /\ RejectedAsInvalid(last.calls[1])

(* The stats requests made after the batch call, in the order made. *)
IndividualCalls ==
    LET IsStats(i) == last.calls[i].url.res = "stats"
        idx == {i \in 2..Len(last.calls) : IsStats(i)}
        RECURSIVE Up(_, _)
        Up(i, acc) == IF i > Len(last.calls) THEN acc
                      ELSE Up(i + 1, IF i \in idx THEN Append(acc, last.calls[i]) ELSE acc)
    IN  Up(2, <<>>)

(* C11: during fallback decomposition exactly one upstream stats request is *)
(* issued per requested key, in request order; a rejected key or a failed   *)
(* fetch does not prevent the requests for the keys after it.               *)
C11_OneRequestPerKeyInOrder ==
    FellBack =>
        /\ Len(IndividualCalls) = Len(last.player_keys)
        /\ \A i \in 1..Len(last.player_keys) :
              IndividualCalls[i].url
                  = build_player_stats_url(last.calls[1].url.league, last.player_keys[i])

(* A fallback over three keys: the first is rejected, the request for the   *)
(* second fails, and the third is still asked for and returned.             *)
C11_Witness ==
    /\ FellBack
    /\ last.player_keys = <<"X", "A", "B">>
    /\ Len(IndividualCalls) = 3
    /\ IndividualCalls[1].outcome = <<"error", 200>>
    /\ IndividualCalls[2].outcome = <<"HTTPError", 500>>
    /\ IndividualCalls[3].outcome = <<"data", 200>>
    /\ KeySeq(last.value) = <<"B">>

----------------------------------------------------------------------------
(* League keys in upstream requests *)

(* The fully-qualified league key of a caller-supplied id: 461.l.d for an   *)
(* id made of the digits d, any other id as it is.                          *)
FullyQualified(raw) ==
    IF raw \in {<<d>> : d \in Digits} THEN <<"461", ".l.", raw[1]>> ELSE raw

(* Every request of the call log carries the league key k. *)
AllCarry(calls, k) == \A i \in 1..Len(calls) : calls[i].url.league = k

(* The /player route asked, with the league id and the scope of the last    *)
(* operation, for the given keys.                                           *)
PlayerRouteFor(keys) ==
    get_player_stats(last.league_id, keys, last.stats_type, last.week, {})

(* C12: league-key normalization precedes every upstream call.  Every stats *)
(* and settings request of Player.get_stats, of batch_fetch_player_stats    *)
(* and of the /player route carries the fully-qualified league key of the   *)
(* caller-supplied id.                                                      *)
C12_LeagueKeyNormalized ==
    (IsGetStats \/ IsBatchFetch) =>
        /\ AllCarry(last.calls, FullyQualified(last.league_id))
        /\ \A r \in {PlayerRouteFor(<<"A", "X">>)} :
              /\ r.calls # <<>>
              /\ AllCarry(r.calls, FullyQualified(last.league_id))

(* get_stats given the bare digits 12345 asks for the stats and the         *)
(* settings of 461.l.12345.                                                 *)
C12_Witness ==
    /\ IsGetStats
    /\ last.league_id = <<"12345">>
    /\ Len(last.calls) = 2
    /\ last.calls[1].url = Url("stats", <<"461", ".l.", "12345">>, <<"A">>)
    /\ last.calls[2].url = Url("settings", <<"461", ".l.", "12345">>, <<>>)

----------------------------------------------------------------------------
(* Shapes of the players collection *)

IsParsePlayers == last.op = "parse_players"

C13_MultiParserNormalizes ==
    IsParsePlayers => KeySeq(last.stats) = last.keys

----------------------------------------------------------------------------
(* Stat categories *)

IsCategories == last.op = "get_league_stat_categories"

(* The settings requests of a call log. *)
SettingsCalls(calls) == {i \in 1..Len(calls) : calls[i].url.res = "settings"}

(* The request did not bring a settings payload: it raised, or there was no *)
(* credential.                                                              *)
CallFailed(c) == c.outcome # <<"data", 200>>

(* Every stat of every returned player carries no stat_name. *)
AllNamesAbsent(enriched) ==
    \A i \in 1..Len(enriched) : \A j \in 1..Len(enriched[i].stats) :
        enriched[i].stats[j].stat_name = <<>>

(* The keys whose own request in the log brought data, in log order. *)
KeysAnswered(calls) ==
    {calls[i].url.keys[1] : i \in {j \in 2..Len(calls) :
                                     /\ calls[j].url.res = "stats"
                                     /\ calls[j].outcome = <<"data", 200>>}}

(* C14: category fetch failure is non-fatal.  When the league-settings      *)
(* fetch fails, get_league_stat_categories returns the empty mapping, and   *)
(* _fetch_players_stats still returns its players (all requested players    *)
(* after a batch reply, the individually answered ones after a fallback),   *)
(* each stat with an absent stat_name.                                      *)
C14_CategoryFailureNonFatal ==
    /\ (IsCategories /\ CallFailed(last.calls[1])) => last.map = <<>>
    /\ (IsFetch /\ \E i \in SettingsCalls(last.calls) : CallFailed(last.calls[i])) =>
          /\ last.kind = "return"
          /\ AllNamesAbsent(last.value)
          /\ last.calls[1].outcome = <<"data", 200>> =>
                KeySeq(last.value) = last.player_keys
          /\ last.calls[1].outcome # <<"data", 200>> =>
                KeysOf(last.value) = KeysAnswered(last.calls)

(* A batch of two players whose settings request meets HTTP 500: both       *)
(* players are returned, their stats unnamed.                               *)
C14_Witness ==
    /\ IsFetch
    /\ last.kind = "return"
    /\ last.calls[1].outcome = <<"data", 200>>
    /\ last.calls[2].url.res = "settings"
    /\ last.calls[2].outcome = <<"HTTPError", 500>>
    /\ KeySeq(last.value) = <<"A", "B">>
    /\ Len(last.value[1].stats) = 2
    /\ AllNamesAbsent(last.value)

(* The settings entries of the upstream that lack the given members. *)
SettingsWithout(display, name) ==
    {i \in 1..Len(UpstreamSettings.items) :
        /\ display => UpstreamSettings.items[i].display_name = <<>>
        /\ name => UpstreamSettings.items[i].name = <<>>}

(* The mapping names the settings entry i "stat_" followed by its id. *)
Synthesized(i) ==
    LET sid == UpstreamSettings.items[i].stat_id
    IN  sid \in DOMAIN last.map /\ last.map[sid] = <<"stat_", sid>>

(* C16 as stated: every stat id whose settings entry omits a display name   *)
(* is given the synthesized name "stat_" followed by the id.                *)
C16_AsStated ==
    (IsCategories /\ ~CallFailed(last.calls[1])) =>
        \A i \in SettingsWithout(TRUE, FALSE) : Synthesized(i)

(* C16: every stat id whose settings entry omits both the display name and  *)
(* the name is given the synthesized name "stat_" followed by the id; an    *)
(* entry that omits only the display name is given its name.                *)
C16_SynthesizedName ==
    (IsCategories /\ ~CallFailed(last.calls[1])) =>
        /\ \A i \in SettingsWithout(TRUE, TRUE) : Synthesized(i)
        /\ \A i \in SettingsWithout(TRUE, FALSE) \ SettingsWithout(TRUE, TRUE) :
              LET s == UpstreamSettings.items[i]
              IN  s.stat_id \in DOMAIN last.map /\ last.map[s.stat_id] = s.name

(* A mapping with a synthesized name for stat 5 and the upstream's name for *)
(* stat 6.                                                                  *)
C16_Witness ==
    /\ IsCategories
    /\ DOMAIN last.map = {"4", "5", "6"}
    /\ last.map["5"] = <<"stat_", "5">>
    /\ last.map["6"] = <<"Rushing Yards">>

(* The cache c holds evidence that the category mapping of the league was   *)
(* fetched less than a TTL before now: an entry of that league, stored less *)
(* than a TTL ago, whose stats carry names from the mapping.                *)
CategoriesFetchedInWindow(c, league, now) ==
    \E k \in DOMAIN c :
        /\ k[1] = league
        /\ now - c[k].timestamp < CACHE_TTL
        /\ \E j \in 1..Len(c[k].stats.stats) : c[k].stats.stats[j].stat_name # <<>>

----------------------------------------------------------------------------
(* Stat values *)

(* The (stat id, value) pairs the upstream holds for key k, in its order. *)
UpstreamValues(k) ==
    LET items == UpstreamPlayer(k).stat.items
    IN  [i \in 1..Len(items) |-> <<items[i].stat_id, items[i].value>>]

(* The (stat id, value) pairs of one returned player. *)
ReturnedValues(enriched) ==
    [i \in 1..Len(enriched.stats) |-> <<enriched.stats[i].stat_id, enriched.stats[i].value>>]

(* C17: stat values are preserved in per-player output.  The stat entries   *)
(* of a player freshly fetched by Player.get_stats, and of every player     *)
(* returned by _fetch_players_stats through batch_fetch_player_stats, are   *)
(* the upstream's entries with their values unchanged, the placeholder "-"  *)
(* included: none removed, none coerced.                                    *)
C17_StatValuesPreserved ==
    /\ (IsGetStats /\ FetchSucceeded) =>
          /\ last.ret # Nothing
          /\ ReturnedValues(last.ret[1]) = UpstreamValues(PlayerKeyOf(last.p))
    /\ IsBatchFetch =>
          \A k \in DOMAIN last.ret : ReturnedValues(last.ret[k]) = UpstreamValues(k)

(* A fresh fetch returns the numeric value the upstream holds now and the   *)
(* placeholder.                                                             *)
C17_Witness ==
    /\ IsGetStats
    /\ FetchSucceeded
    /\ ver = 2
    /\ ReturnedValues(last.ret[1]) = << <<"4", "20">>, <<"5", "-">> >>

----------------------------------------------------------------------------
(* Roster rollup *)

IsTeamStats == last.op = "/team/stats"

(* The numeric stat values and their numbers. *)
NumericValues == {"0", "10", "20"}

NumberOf(value) == IF value = "10" THEN 10 ELSE IF value = "20" THEN 20 ELSE 0

(* The rostered players of the response whose stats were obtained. *)
WithStats == {i \in 1..Len(last.response.players) : last.response.players[i].stats # Nothing}

AtPosition(pos) == {i \in WithStats : last.response.players[i].position = pos}

(* The numbers that the stats of player i hold for the stat id sid, values  *)
(* of the set counted only.                                                 *)
NumbersOf(i, sid, counted) ==
    LET stats == last.response.players[i].stats[1].stats
    IN  [j \in {x \in 1..Len(stats) : stats[x].stat_id = sid /\ stats[x].value \in counted} |->
            NumberOf(stats[j].value)]

RECURSIVE SumOf(_)
SumOf(f) ==
    IF DOMAIN f = {} THEN 0
    ELSE LET x == CHOOSE x \in DOMAIN f : TRUE
         IN  f[x] + SumOf([y \in DOMAIN f \ {x} |-> f[y]])

(* sums is the rollup of the players in the set who: for every stat id an   *)
(* entry with the sum of the counted values, and no entry when no player    *)
(* holds a counted value for it.                                            *)
IsRollup(sums, who, counted) ==
    \A sid \in {"4", "5"} :
        LET parts == [i \in who |-> SumOf(NumbersOf(i, sid, counted))]
            any == \E i \in who : DOMAIN NumbersOf(i, sid, counted) # {}
        IN  IF any THEN sid \in DOMAIN sums /\ sums[sid] = SumOf(parts)
            ELSE sid \notin DOMAIN sums

RollupIsRight(counted) ==
    LET positions == {last.response.players[i].position : i \in WithStats}
    IN  /\ DOMAIN last.response.stats_by_position = positions
        /\ \A pos \in positions :
              IsRollup(last.response.stats_by_position[pos], AtPosition(pos), counted)
        /\ IsRollup(last.response.total_stats, WithStats, counted)

(* C18: roster rollup.  In a /team/<team_key>/stats response the value for  *)
(* each position and stat id is the sum of the numeric values of that stat  *)
(* over the rostered players of the position, each total is the sum over    *)
(* all rostered players, and a value that is not numeric adds nothing and   *)
(* makes no entry.                                                          *)
C18_RosterRollup ==
    (IsTeamStats /\ last.response.status = 200) => RollupIsRight(NumericValues)

(* The same when an empty value (None) is counted as the number zero. *)
C18_RollupCountingEmptyAsZero ==
    (IsTeamStats /\ last.response.status = 200) =>
        RollupIsRight(NumericValues \cup {None})

----------------------------------------------------------------------------
(* Aliasing of cached values *)

(* The cache of object p after the caller of the last operation changed the *)
(* value it received in place.                                              *)
AfterCallerMutates(p, shared) ==
    IF shared THEN MutateInPlace(cache[p], LastKey) ELSE cache[p]

(* What a hit of get_stats on object p returns for the key of the last      *)
(* operation, from the cache c.                                             *)
HitOn(p, c) ==
    get_stats(Self(p), c, last.league_id, last.stats_type, last.week, FALSE, last.now,
              {}, 0)

(* C19: no aliasing of cached values.  After the caller changes in place a  *)
(* value received from Player.get_stats or batch_fetch_player_stats, a      *)
(* cache hit for the same key still returns the value as it was received.   *)
C19_NoAliasing ==
    /\ (IsGetStats /\ last.ret # Nothing) =>
          LET shared == ReturnedObject(last.ret, LastKey) = Some(LastKey)
              after == HitOn(last.p, AfterCallerMutates(last.p, shared))
          IN  after.hit /\ after.ret = last.ret
    /\ IsBatchFetch =>
          \A p \in Players :
              PlayerKeyOf(p) \in DOMAIN last.ret =>
                  LET k == PlayerKeyOf(p)
                      shared == p \in BatchSharedWith(last.objs,
                                                      [q \in Players |-> Self(q)], k)
                      after == HitOn(p, AfterCallerMutates(p, shared))
                  IN  after.hit /\ after.ret = Some(last.ret[k])

----------------------------------------------------------------------------
(* Week scope without a week *)

(* C20: a week-scope request without a week is refused.  GET /player with   *)
(* type=week and no week parameter returns a 400 error and issues no        *)
(* upstream request.                                                        *)
C20_WeekRequiredForWeekScope ==
    (IsPlayerRoute /\ last.stats_type = "week" /\ last.week = None) =>
        /\ last.response.status = 400
        /\ last.response.calls = <<>>

(* A request with a league id, keys and a credential in place that is       *)
(* refused for its missing week alone.                                      *)
C20_Witness ==
    /\ IsPlayerRoute
    /\ token
    /\ last.league_id = <<"12345">>
    /\ last.raw_keys = <<"A", "B">>
    /\ last.stats_type = "week"
    /\ last.week = None
    /\ last.response.status = 400
    /\ last.response.calls = <<>>

----------------------------------------------------------------------------
(* The fallback trigger and malformed replies *)

(* The batch call of _fetch_players_stats brought no payload: it raised, or *)
(* the body was an error.                                                   *)
BatchFailed ==
    /\ IsFetch
    /\ last.calls # <<>>
    /\ last.calls[1].outcome \notin {<<"data", 200>>, <<"fieldless", 200>>}

(* The call got a 200 response whose body is not what was asked for: no     *)
(* XML, or a document without the expected fields.                          *)
MetMalformed(c) == c.outcome \in {<<"ExpatError", 200>>, <<"fieldless", 200>>}

(* The error the batch call met, as _fetch_players_stats raises it: the     *)
(* exception of fetch_yahoo itself, or RuntimeError for an error body.      *)
RaisedFor(c) ==
    IF c.outcome[1] = "error" THEN <<"RuntimeError", c.outcome[2]>> ELSE c.outcome

(* C22: the fallback trigger.  _fetch_players_stats makes individual        *)
(* per-player requests only when the batch call was rejected with a         *)
(* recognized invalid-key description (in an error body or in an HTTP 400    *)
(* body); after every other batch error it makes no further request and     *)
(* raises the error.                                                        *)
C22_FallbackTrigger ==
    IsFetch =>
        /\ Len(IndividualCalls) > 0 => RejectedAsInvalid(last.calls[1])
        /\ (BatchFailed /\ ~RejectedAsInvalid(last.calls[1])) =>
              /\ Len(last.calls) = 1
              /\ last.kind = "raise"
              /\ last.exc = RaisedFor(last.calls[1])

(* A batch for a key the upstream rejects with a description that is no     *)
(* invalid-key signal ("Bad request"): one call, and the error is raised.   *)
C22_Witness ==
    /\ IsFetch
    /\ token
    /\ last.player_keys = <<"A", "X">>
    /\ rej.desc = <<"Bad", "request">>
    /\ last.calls[1].outcome = <<"error", 200>>
    /\ Len(last.calls) = 1
    /\ last.kind = "raise"
    /\ last.exc = <<"RuntimeError", 200>>

(* C23: malformed replies are classified by context.  A malformed or        *)
(* field-less body met by the request for one player during the fallback    *)
(* drops that player alone; a malformed or field-less body met by the batch *)
(* request makes _fetch_players_stats fail, it never returns a result.      *)
C23_MalformedByContext ==
    IsFetch =>
        /\ FellBack =>
              /\ last.kind = "return"
              /\ \A i \in 2..Len(last.calls) :
                    (last.calls[i].url.res = "stats" /\ MetMalformed(last.calls[i])) =>
                        last.calls[i].url.keys[1] \notin KeysOf(last.value)
              /\ KeysAnswered(last.calls) \subseteq KeysOf(last.value)
        /\ (last.calls # <<>> /\ MetMalformed(last.calls[1])) => last.kind = "raise"

(* The part of C23 that the code keeps: in the per-player context a         *)
(* malformed or field-less body drops that player alone, and a batch body   *)
(* that is no XML makes _fetch_players_stats raise.                         *)
C23_UndecodableBatchRaises ==
    IsFetch =>
        /\ FellBack =>
              /\ last.kind = "return"
              /\ \A i \in 2..Len(last.calls) :
                    (last.calls[i].url.res = "stats" /\ MetMalformed(last.calls[i])) =>
                        last.calls[i].url.keys[1] \notin KeysOf(last.value)
              /\ KeysAnswered(last.calls) \subseteq KeysOf(last.value)
        /\ (last.calls # <<>> /\ last.calls[1].outcome = <<"ExpatError", 200>>) =>
              /\ last.kind = "raise"
              /\ Len(last.calls) = 1

(* C29: every entry of the list _fetch_players_stats returns has a          *)
(* player_key, on the batch path and on the fallback path.                  *)
C29_EntriesHaveKey ==
    (IsFetch /\ last.kind = "return") =>
        \A i \in 1..Len(last.value) : last.value[i].player_key # None

(* The part of C29 that the code keeps: the entries of the fallback path    *)
(* have a player_key (yahoo_api.py 480).                                    *)
C29_FallbackEntriesHaveKey ==
    (FellBack /\ last.kind = "return") =>
        \A i \in 1..Len(last.value) : last.value[i].player_key # None

----------------------------------------------------------------------------
(* Season scope and the week *)

(* The fault plan a call log shows: which of the calls met which fault. *)
PlanOf(calls) == { <<i, calls[i].beh>> : i \in {j \in 1..Len(calls) : calls[j].beh # "ok"} }

(* The season-scope spellings of stats_type. *)
SeasonTypes == {None, "season"}

(* The get_stats call of the last operation made with stats_type st and     *)
(* week w instead, on the same object in the same state and with the same   *)
(* upstream behaviour.                                                      *)
GetStatsWith(st, w) ==
    get_stats(Self(last.p), last.pre_cache, last.league_id, st, w, last.force_refresh,
              last.now, PlanOf(last.calls), 0)

(* The same for the batch_fetch_player_stats call of the last operation. *)
BatchFetchWith(st, w) ==
    batch_fetch_player_stats(last.objs, [p \in Players |-> Self(p)], last.pre_caches,
                             last.league_id, st, w, last.now, PlanOf(last.calls), 0)

(* C24: for a season-scope request the week is ignored.  get_stats and      *)
(* batch_fetch_player_stats called with season scope (stats_type "season"   *)
(* or unset) and a week make the same upstream requests and read and write  *)
(* the same cache entries as the same call without a week.                  *)
C24_SeasonIgnoresWeek ==
    /\ (IsGetStats /\ last.stats_type = None /\ last.week = None) =>
          \A st \in SeasonTypes : \A r \in {GetStatsWith(st, "3")} :
              /\ r.calls = last.calls
              /\ DOMAIN r.cache = DOMAIN cache[last.p]
    /\ (IsBatchFetch /\ last.stats_type = None /\ last.week = None) =>
          \A st \in SeasonTypes : \A r \in {BatchFetchWith(st, "3")} :
              /\ r.calls = last.calls
              /\ \A p \in Players : DOMAIN r.caches[p] = DOMAIN cache[p]

(* The part of C24 that the code keeps: the upstream requests of a          *)
(* season-scope call that has to fetch do not depend on the week            *)
(* (yahoo_api.py 141-184), and the spellings "season" and unset address the *)
(* same entry.                                                              *)
C24_SeasonSpellingsAgree ==
    /\ (IsGetStats /\ last.stats_type = None /\ last.week = None) =>
          /\ \A r \in {GetStatsWith("season", None)} :
                /\ r.calls = last.calls
                /\ DOMAIN r.cache = DOMAIN cache[last.p]
          /\ last.force_refresh =>
                \A r \in {GetStatsWith(None, "3")} : r.calls = last.calls
    /\ (IsBatchFetch /\ last.stats_type = None /\ last.week = None) =>
          \A r \in {BatchFetchWith("season", "3")} : r.calls = last.calls

----------------------------------------------------------------------------
(* GET /waivers *)

IsWaivers == last.op = "/waivers"

(* C27: GET /waivers without a league_id parameter is answered with 400 and *)
(* the error "league_id is required", and no upstream request is made.      *)
C27_WaiversRequireLeague ==
    (IsWaivers /\ last.league_id = Nothing) =>
        /\ last.response.status = 400
        /\ last.response.error = "league_id is required"
        /\ last.response.calls = <<>>

(* The part of C27 that the code keeps: without a league_id parameter no    *)
(* upstream request is made, and an empty league_id parameter is answered   *)
(* with 400 and "league_id is required".                                    *)
C27_EmptyLeagueRefused ==
    /\ (IsWaivers /\ last.league_id = Nothing) => last.response.calls = <<>>
    /\ (IsWaivers /\ last.league_id = Some(<<>>)) =>
          /\ last.response.status = 400
          /\ last.response.error = "league_id is required"
          /\ last.response.calls = <<>>

----------------------------------------------------------------------------
(* Overwriting and eviction *)

IsClear == last.op = "clear_stats_cache"

(* get_stats on a key that has an entry, after its expiry or with           *)
(* force_refresh.                                                           *)
C25Case ==
    /\ IsGetStats
    /\ LastKey \in DOMAIN last.pre_cache
    /\ (last.force_refresh \/ Age >= CACHE_TTL)

(* The settings request of the operation brought no categories. *)
SettingsFailed == \E i \in SettingsCalls(last.calls) : CallFailed(last.calls[i])

(* C25: overwrite without merge.  get_stats on a key that has an entry,     *)
(* after expiry or with force_refresh, asks the upstream (with              *)
(* force_refresh also when the entry is live); when the fetch succeeds the  *)
(* entry of the key is exactly the new result with the time of the call:    *)
(* values and names are those of this fetch, nothing is kept of the entry   *)
(* before, and the other entries are untouched.                             *)
C25_OverwriteWithoutMerge ==
    C25Case =>
        /\ Fetched
        /\ FetchSucceeded =>
              /\ last.ret # Nothing
              /\ LastKey \in DOMAIN cache[last.p]
              /\ cache[last.p][LastKey] = CacheEntry(last.ret[1], last.now)
              /\ ReturnedValues(last.ret[1]) = UpstreamValues(PlayerKeyOf(last.p))
              /\ SettingsFailed => AllNamesAbsent(<<cache[last.p][LastKey].stats>>)
              /\ \A k \in DOMAIN last.pre_cache \ {LastKey} :
                    k \in DOMAIN cache[last.p] /\ cache[last.p][k] = last.pre_cache[k]

(* A forced refresh while the entry is still live: the upstream is asked,   *)
(* and the entry that held the old statistics with names now holds the new  *)
(* statistics, unnamed (the settings request failed), stamped anew.         *)
C25_Witness ==
    /\ C25Case
    /\ last.force_refresh
    /\ Age > 0
    /\ Age < CACHE_TTL
    /\ FetchSucceeded
    /\ SettingsFailed
    /\ ~AllNamesAbsent(<<PreEntry.stats>>)
    /\ ReturnedValues(PreEntry.stats) # ReturnedValues(last.ret[1])
    /\ cache[last.p][LastKey] = CacheEntry(last.ret[1], last.now)

(* The cache c without the entry of key k. *)
Without(c, k, after) ==
    /\ DOMAIN after = DOMAIN c \ {k}
    /\ \A x \in DOMAIN after : after[x] = c[x]

(* C26: entries leave a Player's stats cache only through                   *)
(* clear_stats_cache.  get_stats never removes an entry: every key stored   *)
(* before is stored after, an expired entry unchanged unless a successful   *)
(* fetch overwrote it.  clear_stats_cache(k) removes exactly the entry of   *)
(* k, from the cache as the operation left it and as the action found it,   *)
(* and clear_stats_cache() leaves the cache empty.                          *)
C26_EvictionOnlyByClear ==
    /\ IsGetStats =>
          /\ DOMAIN last.pre_cache \subseteq DOMAIN cache[last.p]
          /\ \A k \in DOMAIN last.pre_cache :
                (k # LastKey \/ ~FetchSucceeded) => cache[last.p][k] = last.pre_cache[k]
          /\ \A k \in CacheKeys :
                Without(cache[last.p], k, clear_stats_cache(cache[last.p], Some(k)))
          /\ clear_stats_cache(cache[last.p], Nothing) = <<>>
    /\ IsClear =>
          /\ last.cache_key # Nothing =>
                Without(last.pre_cache, last.cache_key[1], cache[last.p])
          /\ last.cache_key = Nothing => cache[last.p] = <<>>

(* A get_stats whose fetch failed on an expired entry: the entry is still  *)
(* stored as it was, and clear_stats_cache with its key is what removes it. *)
C26_Witness ==
    /\ IsGetStats
    /\ LastKey \in DOMAIN last.pre_cache
    /\ Age >= CACHE_TTL
    /\ FetchFailed
    /\ cache[last.p] = last.pre_cache
    /\ LastKey \in DOMAIN cache[last.p]
    /\ LastKey \notin DOMAIN clear_stats_cache(cache[last.p], Some(LastKey))

(* A cache of two entries, of which clear_stats_cache with a key leaves     *)
(* the other.                                                               *)
TwoEntriesOneCleared ==
    /\ IsGetStats
    /\ Cardinality(DOMAIN cache[last.p]) = 2
    /\ \A k \in DOMAIN cache[last.p] :
          Cardinality(DOMAIN clear_stats_cache(cache[last.p], Some(k))) = 1

(* The upstream stats fetch of batch_fetch_player_stats raised: the batch   *)
(* request met an exception, or an error body that is no invalid-key        *)
(* signal.                                                                  *)
BatchRaised ==
    /\ IsBatchFetch
    /\ last.calls # <<>>
    /\ last.calls[1].outcome \notin {<<"data", 200>>, <<"fieldless", 200>>}
    /\ ~RejectedAsInvalid(last.calls[1])

(* C28: when the upstream stats fetch raises inside                         *)
(* batch_fetch_player_stats, the function returns the empty mapping and the *)
(* cache of every Player is as before: no entry added, and the entries      *)
(* there, live or stale, with their stats and timestamp.                    *)
C28_BatchRaiseLeavesCaches ==
    BatchRaised =>
        /\ last.ret = <<>>
        /\ Len(last.calls) = 1
        /\ cache = last.pre_caches

(* A batch whose request meets HTTP 500 while p1 holds an expired entry for *)
(* the key: nothing is returned and the entry is still there.               *)
C28_Witness ==
    /\ BatchRaised
    /\ last.calls[1].outcome = <<"HTTPError", 500>>
    /\ LastKey \in DOMAIN last.pre_caches["p1"]
    /\ last.now - last.pre_caches["p1"][LastKey].timestamp >= CACHE_TTL
    /\ last.ret = <<>>
    /\ cache = last.pre_caches

----------------------------------------------------------------------------
(* Concurrent readers and writers of one cache key *)

(* The entries that were built whole by one call: stats of its fetch and    *)
(* the time.time() of the same call.                                        *)
WholeEntries == {writes[i].entry : i \in 1..Len(writes)}

(* C21: under any interleaving of get_stats and batch_fetch_player_stats    *)
(* calls on the same cache key, every read of the cache (the entry a thread *)
(* took at models.py 192, and the entry the cache holds) is no entry or an  *)
(* entry built whole by one call, and the stats a thread returns from the   *)
(* cache are those of such an entry; the entry the cache holds is the one   *)
(* of the last store.                                                       *)
C21_ReadsSeeWholeEntries ==
    /\ \A t \in Threads :
          /\ thread[t].cached_data # Nothing => thread[t].cached_data[1] \in WholeEntries
          /\ (thread[t].cached_data # Nothing /\ thread[t].pc = "idle")
               => thread[t].ret = Some(thread[t].cached_data[1].stats)
    /\ Lookup(cache[RacePlayer], RaceKey) \in {Nothing} \cup {Some(e) : e \in WholeEntries}
    /\ writes = <<>> => RaceKey \notin DOMAIN cache[RacePlayer]
    /\ writes # <<>> =>
          /\ RaceKey \in DOMAIN cache[RacePlayer]
          /\ cache[RacePlayer][RaceKey] = writes[Len(writes)].entry

(* Two threads have written the key, the one that built its entry first     *)
(* storing it last: no call is in progress, the cache holds the entry of    *)
(* the last store, which carries the older timestamp, and a thread that     *)
(* read the key in between holds the entry that was there then.             *)
C21_Witness ==
    /\ Len(writes) >= 2
    /\ writes[Len(writes)].by \in Threads
    /\ writes[Len(writes) - 1].by \in Threads
    /\ writes[Len(writes)].by # writes[Len(writes) - 1].by
    /\ writes[Len(writes)].entry.timestamp < writes[Len(writes) - 1].entry.timestamp
    /\ ReturnedValues(writes[Len(writes)].entry.stats)
         # ReturnedValues(writes[Len(writes) - 1].entry.stats)
    /\ \A t \in Threads : thread[t].pc = "idle"
    /\ cache[RacePlayer][RaceKey] = writes[Len(writes)].entry

(* A thread holds an entry it read (models.py 192) that another thread has  *)
(* overwritten since.                                                       *)
ReadThenOverwritten ==
    \E t \in Threads :
        /\ thread[t].pc = "age"
        /\ thread[t].cached_data # Nothing
        /\ thread[t].cached_data[1] # cache[RacePlayer][RaceKey]
        /\ thread[t].cached_data[1] \in WholeEntries

----------------------------------------------------------------------------
(* The process-wide cache of yahoo_client *)

(* A thread is at the pop of _cache_get (yahoo_client.py 35). *)
AtPop(t) == client[t].pc = "pop"

(* C30: under any interleaving of _cache_get and _cache_set on the same     *)
(* key, _cache_get never removes an entry whose expiry time lies in the     *)
(* future: whenever a thread is at the pop, the entry the cache holds for   *)
(* the key, if any, has expired.                                            *)
C30_GetKeepsFreshEntries ==
    \A t \in Threads :
        (AtPop(t) /\ MetaKey \in DOMAIN _CACHE) => _CACHE[MetaKey][2] < clock

(* The pop follows a test that found the entry the thread had read expired. *)
C30_PopAfterExpiredRead ==
    \A t \in Threads :
        AtPop(t) => client[t].v # Nothing /\ client[t].v[1][2] < client[t].now

====
